---- MODULE Spec2Model ----
(***************************************************************************)
(* Verification model of the Lirum All Image Converter pipeline:           *)
(*   - the hand-rolled BMP encoder and the encode dispatcher (main.js),    *)
(*   - the save-image and decode-image IPC handlers (main.js),             *)
(*   - the HEIC/AVIF decoder with its native AVIF fallback                 *)
(*     (heic-decoder.js),                                                  *)
(*   - the renderer's load dispatcher (renderer, handleFile).              *)
(*                                                                         *)
(* JavaScript values are tagged records: Null, Undef, Num(n), Str(s),      *)
(* where a string s is a sequence of one-character strings, so that        *)
(* toLowerCase, endsWith, path.extname and parseInt are computed on the    *)
(* characters.  Byte buffers are sequences of 0..255 (1-based in TLA+,     *)
(* 0-based offsets in the code: byte at offset o is buf[o+1]).             *)
(***************************************************************************)
EXTENDS Integers, Sequences, FiniteSets, TLC

VARIABLES
    (* encodeBmp call *)
    bmpPc,          \* "call" before encodeBmp runs, "done" after it returned
    width,          \* argument width
    height,         \* argument height
    pixelData,      \* argument pixelData (raw bytes)
    buffer,         \* the Buffer encodeBmp returns (<<>> before the call)
    (* encodeOutputBuffer call *)
    encPc,          \* "call" before encodeOutputBuffer runs, "done" after
    sharp,          \* TRUE when require('sharp') succeeded, FALSE when sharp = null
    inputBuffer,    \* argument inputBuffer (the image the bytes hold)
    targetFormat,   \* argument targetFormat
    qualityValue,   \* argument qualityValue
    encResult,      \* what the call returned or threw
    (* ipcMain.handle('save-image') *)
    savePc,         \* "call", "dialog" (awaiting showSaveDialog), "encoding"
                    \* (awaiting encodeOutputBuffer), "done"
    saveArgs,       \* { dataUrl, defaultName, targetFormat, quality }
    saveLocals,     \* format, defaultName, outputPath, inputBuffer of the call
    saveResult,     \* the value the handler returned
    saveTrace,      \* the work done so far, in order
    files,          \* the files written: a set of [path, size]
    lastSavedFilePath,
    (* renderer: handleFile and the decoders it drives *)
    loadPc,         \* position of the load in flight
    loadArgs,       \* handleFile(file, filePath)
    heicDecoder,    \* TRUE when initDecoder succeeded, FALSE when heicDecoder = null
    dispatched,     \* the handler handleFile chose for the file
    decodeArgs,     \* { filePath, arrayBuffer, dataUrl } of the decode-image call
    decodeReply,    \* what the decode-image handler returned or threw
    attempts,       \* the decode attempts made, in order: [decoder, bytes, ok]
    onErrorCalls,   \* the errors passed to the onError callback of decode
    decodeResult,   \* what HeicDecoder.decode returned or threw
    loadResult,     \* how the load ended
    currentCanvas,  \* the renderer's currentCanvas
    (* a call of one of the helper functions of main.js *)
    fnPc,           \* "call" before the function runs, "done" after it returned
    fnName,         \* the function called
    fnArg,          \* its argument
    fnResult,       \* what it returned or threw
    (* renderer: the state of the window *)
    currentImage,   \* the Image element shown and converted, or null
    currentFile,    \* the File selected last, or null
    currentFileName,
    currentFilePath,
    selectedFormat, \* { format, extension, quality } of the selected card, or null
    formatCardsDisabled,
    activeModal,    \* the modal that is open, or null
    statusText,     \* the message and type showStatus set last
    loads,          \* the handleFile calls made, in order, each with its position
    conversions,    \* the convertImage calls made, in order, each with its position
    (* main process: the save-image calls made one after another, and the
       open-containing-folder and open-file handlers *)
    saveCalls,      \* the number of save-image calls made
    filesAtCall,    \* the files that existed when the save-image call was made
    everSaved,      \* TRUE when an earlier save-image call returned success
    openCall,       \* the open-containing-folder or open-file call handled last
    (* main process: the log list and the log window *)
    logWindow,      \* "none", "loading" (created, page not ready) or "ready"
    logHandlers,    \* how many times createLogWindow registered its ipcMain listeners
    sharedLogs,     \* the log list of the main process
    added,          \* the number of add-log messages handled
    sent,           \* the messages the handlers of the last message sent to windows
    windowLogs,     \* the list of the log window
    loggerLogs,     \* Logger.logs of the renderer
    logged          \* the number of Logger.log calls made

bmpVars == <<bmpPc, width, height, pixelData, buffer>>

encVars == <<encPc, sharp, inputBuffer, targetFormat, qualityValue, encResult>>

saveVars == <<savePc, saveArgs, saveLocals, saveResult, saveTrace, files,
              lastSavedFilePath>>

loadVars == <<loadPc, loadArgs, heicDecoder, dispatched, decodeArgs, decodeReply,
              attempts, onErrorCalls, decodeResult, loadResult, currentCanvas>>

fnVars == <<fnPc, fnName, fnArg, fnResult>>

rendererVars == <<currentImage, currentFile, currentFileName, currentFilePath,
                  selectedFormat, formatCardsDisabled, activeModal, statusText,
                  loads, conversions>>

mainVars == <<saveCalls, filesAtCall, everSaved, openCall>>

logVars == <<logWindow, logHandlers, sharedLogs, added, sent, windowLogs, loggerLogs,
             logged>>

appVars == <<rendererVars, mainVars, logVars>>

vars == <<bmpVars, encVars, saveVars, loadVars, fnVars, appVars>>

-----------------------------------------------------------------------------
(* Bounds of the model *)

MaxW == 5
MaxH == 3
NumPatterns == 4

-----------------------------------------------------------------------------
(* JavaScript values *)

Null == [t |-> "null"]
Undef == [t |-> "undefined"]
Num(n) == [t |-> "number", n |-> n]
Str(s) == [t |-> "string", v |-> s]
NaN == [t |-> "NaN"]

\* !v
Falsy(v) ==
    /\ "t" \in DOMAIN v
    /\ \/ v.t \in {"null", "undefined", "NaN"}
       \/ v.t = "string" /\ "v" \in DOMAIN v /\ v.v = <<>>
       \/ v.t = "number" /\ v.n = 0

UpperCase == <<"A", "B", "C", "D", "E", "F", "G", "H", "I", "J", "K", "L", "M",
               "N", "O", "P", "Q", "R", "S", "T", "U", "V", "W", "X", "Y", "Z">>

LowerCase == <<"a", "b", "c", "d", "e", "f", "g", "h", "i", "j", "k", "l", "m",
               "n", "o", "p", "q", "r", "s", "t", "u", "v", "w", "x", "y", "z">>

Digits == <<"0", "1", "2", "3", "4", "5", "6", "7", "8", "9">>

ToLowerChar(c) ==
    IF \E i \in 1..26 : UpperCase[i] = c
    THEN LowerCase[CHOOSE i \in 1..26 : UpperCase[i] = c]
    ELSE c

\* s.toLowerCase()
ToLowerCase(s) == [i \in 1..Len(s) |-> ToLowerChar(s[i])]

\* s.endsWith(suffix)
EndsWith(s, suffix) ==
    /\ Len(suffix) <= Len(s)
    /\ SubSeq(s, Len(s) - Len(suffix) + 1, Len(s)) = suffix

\* s.startsWith(prefix)
StartsWith(s, prefix) ==
    /\ Len(prefix) <= Len(s)
    /\ SubSeq(s, 1, Len(prefix)) = prefix

IsDigit(c) == \E i \in 1..10 : Digits[i] = c

DigitValue(c) == (CHOOSE i \in 1..10 : Digits[i] = c) - 1

RECURSIVE DecimalString(_)
\* String(n) of a non-negative integer
DecimalString(n) ==
    IF n < 10 THEN <<Digits[n + 1]>>
    ELSE DecimalString(n \div 10) \o <<Digits[(n % 10) + 1]>>

\* String(v)
JsString(v) ==
    IF v.t = "string" THEN v.v
    ELSE IF v.t = "number"
         THEN (IF v.n < 0 THEN <<"-">> \o DecimalString(0 - v.n) ELSE DecimalString(v.n))
    ELSE IF v.t = "null" THEN <<"n", "u", "l", "l">>
    ELSE IF v.t = "NaN" THEN <<"N", "a", "N">>
    ELSE <<"u", "n", "d", "e", "f", "i", "n", "e", "d">>

RECURSIVE DigitsValue(_, _, _)
\* the value of the longest run of digits of s that starts at position i,
\* acc being the value of the digits already read
DigitsValue(s, i, acc) ==
    IF i <= Len(s) /\ IsDigit(s[i])
    THEN DigitsValue(s, i + 1, acc * 10 + DigitValue(s[i]))
    ELSE acc

RECURSIVE SkipSpaces(_, _)
SkipSpaces(s, i) == IF i <= Len(s) /\ s[i] = " " THEN SkipSpaces(s, i + 1) ELSE i

\* parseInt(v, 10): String(v), leading white space skipped, an optional sign,
\* then the longest run of decimal digits; NaN when there is none
ParseInt(v) ==
    LET s == JsString(v)
        i == SkipSpaces(s, 1)
        signed == i <= Len(s) /\ s[i] \in {"-", "+"}
        j == IF signed THEN i + 1 ELSE i
    IN  IF j <= Len(s) /\ IsDigit(s[j])
        THEN Num((IF signed /\ s[i] = "-" THEN -1 ELSE 1) * DigitsValue(s, j, 0))
        ELSE NaN

\* s.lastIndexOf(c), 1-based, 0 when c does not occur
LastIndexOf(s, c) ==
    IF \E i \in 1..Len(s) : s[i] = c
    THEN CHOOSE i \in 1..Len(s) : s[i] = c /\ \A j \in (i + 1)..Len(s) : s[j] # c
    ELSE 0

\* path.extname(p) of a path without directory part: from the last '.' on,
\* '' when there is no '.' or the only '.' is the first character
ExtName(s) ==
    LET i == LastIndexOf(s, ".")
    IN  IF i <= 1 THEN <<>> ELSE SubSeq(s, i, Len(s))

\* s.replace('.', ''): the first '.' removed
RemoveFirstDot(s) ==
    IF \E i \in 1..Len(s) : s[i] = "."
    THEN LET i == CHOOSE k \in 1..Len(s) : s[k] = "." /\ \A j \in 1..(k - 1) : s[j] # "."
         IN  SubSeq(s, 1, i - 1) \o SubSeq(s, i + 1, Len(s))
    ELSE s

\* s.replace(/\.[^/.]+$/, ''): a last '.' followed by at least one character,
\* none of them '/', is cut off with what follows it
StripExtension(s) ==
    LET i == LastIndexOf(s, ".")
    IN  IF i >= 1 /\ i < Len(s) /\ \A j \in (i + 1)..Len(s) : s[j] # "/"
        THEN SubSeq(s, 1, i - 1)
        ELSE s

\* array.includes(x)
Includes(seq, x) == \E i \in 1..Len(seq) : seq[i] = x

Min(a, b) == IF a <= b THEN a ELSE b

Max(a, b) == IF a >= b THEN a ELSE b

-----------------------------------------------------------------------------
(* Buffer primitives (Node Buffer) *)

\* Buffer.alloc(n): n zero bytes
BufferAlloc(n) == [i \in 1..n |-> 0]

\* pixelData[i] stored into a Buffer: an index past the end reads undefined,
\* which a Buffer store coerces to 0
ByteAt(data, i) == IF i >= 0 /\ i < Len(data) THEN data[i + 1] % 256 ELSE 0

\* buffer.writeUInt32LE(value, offset)
WriteUInt32LE(buf, value, offset) ==
    [buf EXCEPT ![offset + 1] = value % 256,
                ![offset + 2] = (value \div 256) % 256,
                ![offset + 3] = (value \div 65536) % 256,
                ![offset + 4] = (value \div 16777216) % 256]

\* buffer.writeInt32LE(value, offset): two's complement, 32 bits (\div is the
\* floor division, so the four bytes of a negative value are its two's
\* complement bytes)
WriteInt32LE(buf, value, offset) ==
    [buf EXCEPT ![offset + 1] = value % 256,
                ![offset + 2] = (value \div 256) % 256,
                ![offset + 3] = (value \div 65536) % 256,
                ![offset + 4] = (value \div 16777216) % 256]

\* buffer.writeUInt16LE(value, offset)
WriteUInt16LE(buf, value, offset) ==
    [buf EXCEPT ![offset + 1] = value % 256,
                ![offset + 2] = (value \div 256) % 256]

\* buffer.write('BM', 0, 2, 'ascii')
WriteMagic(buf) == [buf EXCEPT ![1] = 66, ![2] = 77]

-----------------------------------------------------------------------------
(* encodeBmp, main.js:86-126 *)

bytesPerPixel == 3
fileHeaderSize == 14
infoHeaderSize == 40
PelsPerMeter == 2835

RowStrideUnpadded(w) == w * bytesPerPixel

\* const rowStride = Math.floor((width * bytesPerPixel + 3) / 4) * 4
RowStride(w) == ((w * bytesPerPixel + 3) \div 4) * 4

ImageSize(w, h) == RowStride(w) * h

FileSize(w, h) == fileHeaderSize + infoHeaderSize + ImageSize(w, h)

SourceRowTopDown(h, y) == y

\* const sourceRow = height - 1 - y
SourceRow(h, y) == h - 1 - y

\* the header writes, in the order of the code
WriteHeaders(buf, w, h) ==
    LET b1 == WriteMagic(buf)
        b2 == WriteUInt32LE(b1, FileSize(w, h), 2)
        b3 == WriteUInt32LE(b2, 0, 6)
        b4 == WriteUInt32LE(b3, fileHeaderSize + infoHeaderSize, 10)
        b5 == WriteUInt32LE(b4, infoHeaderSize, 14)
        b6 == WriteInt32LE(b5, w, 18)
        b7 == WriteInt32LE(b6, h, 22)
        b8 == WriteUInt16LE(b7, 1, 26)
        b9 == WriteUInt16LE(b8, bytesPerPixel * 8, 28)
        b10 == WriteUInt32LE(b9, 0, 30)
        b11 == WriteUInt32LE(b10, ImageSize(w, h), 34)
        b12 == WriteInt32LE(b11, PelsPerMeter, 38)
        b13 == WriteInt32LE(b12, PelsPerMeter, 42)
        b14 == WriteUInt32LE(b13, 0, 46)
    IN  WriteUInt32LE(b14, 0, 50)

RECURSIVE ColumnLoop(_, _, _, _, _, _, _)
\* for (let x = 0; x < width; x++) { ... buffer[rowOffset++] = ... }
\* The iterations x = lo .. hi-1 are run in increasing order, rowOffset being
\* the write position at x = lo (three increments per iteration); the range
\* is halved instead of peeled so that the evaluation depth stays logarithmic,
\* and the test on Len makes the first half's stores happen before the second
\* half starts (an indexed store never resizes a Buffer).
ColumnLoop(buf, data, w, sourceRow, lo, hi, rowOffset) ==
    IF lo >= hi THEN buf
    ELSE IF hi - lo = 1
    THEN LET srcIndex == (sourceRow * w + lo) * 4
         IN  [buf EXCEPT ![rowOffset + 1] = ByteAt(data, srcIndex + 2),
                         ![rowOffset + 2] = ByteAt(data, srcIndex + 1),
                         ![rowOffset + 3] = ByteAt(data, srcIndex)]
    ELSE LET mid == lo + ((hi - lo) \div 2)
             first == ColumnLoop(buf, data, w, sourceRow, lo, mid, rowOffset)
         IN  IF Len(first) = Len(buf)
             THEN ColumnLoop(first, data, w, sourceRow, mid, hi,
                             rowOffset + 3 * (mid - lo))
             ELSE first

RECURSIVE RowLoop(_, _, _, _, _, _)
\* for (let y = 0; y < height; y++) { ... }, iterations y = lo .. hi-1 in
\* increasing order
RowLoop(buf, data, w, h, lo, hi) ==
    IF lo >= hi THEN buf
    ELSE IF hi - lo = 1
    THEN LET offset == fileHeaderSize + infoHeaderSize
             rowOffset == offset + lo * RowStride(w)
         IN  ColumnLoop(buf, data, w, SourceRow(h, lo), 0, w, rowOffset)
    ELSE LET mid == lo + ((hi - lo) \div 2)
             first == RowLoop(buf, data, w, h, lo, mid)
         IN  IF Len(first) = Len(buf)
             THEN RowLoop(first, data, w, h, mid, hi)
             ELSE first

encodeBmp(data, w, h) ==
    RowLoop(WriteHeaders(BufferAlloc(FileSize(w, h)), w, h), data, w, h, 0, h)

-----------------------------------------------------------------------------
(* Format registry and normalisers, main.js:13-37 *)

jpeg == <<"j", "p", "e", "g">>
jpg == <<"j", "p", "g">>
png == <<"p", "n", "g">>
webp == <<"w", "e", "b", "p">>
avif == <<"a", "v", "i", "f">>
heic == <<"h", "e", "i", "c">>
heif == <<"h", "e", "i", "f">>
gif == <<"g", "i", "f">>
bmp == <<"b", "m", "p">>
tiff == <<"t", "i", "f", "f">>
tif == <<"t", "i", "f">>

\* const OUTPUT_FORMATS = { jpeg: {...}, ... }: the keys in declaration order,
\* and the extensions of each key
FormatKeys == <<jpeg, png, webp, avif, heic, gif, bmp, tiff>>

OUTPUT_FORMATS ==
    [k \in {FormatKeys[i] : i \in 1..Len(FormatKeys)} |->
        [extensions |->
            IF k = jpeg THEN <<jpg, jpeg>>
            ELSE IF k = heic THEN <<heic, heif>>
            ELSE IF k = tiff THEN <<tif, tiff>>
            ELSE <<k>>]]

normalizeFormatCaseSensitive(format) ==
    IF Falsy(format) THEN Null
    ELSE LET value == JsString(format)
         IN  IF value = jpg THEN Str(jpeg)
             ELSE IF value = heif THEN Str(heic)
             ELSE IF value = tif THEN Str(tiff)
             ELSE Str(value)

\* function normalizeFormat(format)
normalizeFormat(format) ==
    IF Falsy(format) THEN Null
    ELSE LET value == ToLowerCase(JsString(format))
         IN  IF value = jpg THEN Str(jpeg)
             ELSE IF value = heif THEN Str(heic)
             ELSE IF value = tif THEN Str(tiff)
             ELSE Str(value)

normalizeQualityUnclamped(value) ==
    LET parsed == ParseInt(value)
    IN  IF parsed = NaN THEN Null
        ELSE Num(parsed.n)

\* function normalizeQuality(value)
normalizeQuality(value) ==
    LET parsed == ParseInt(value)
    IN  IF parsed = NaN THEN Null
        ELSE Num(Min(100, Max(1, parsed.n)))

\* the lower-case property names every object literal inherits from
\* Object.prototype: OUTPUT_FORMATS[key] is truthy for them, and its label
\* and extensions are undefined
InheritedKeys == {<<"c", "o", "n", "s", "t", "r", "u", "c", "t", "o", "r">>, <<"_", "_", "p", "r", "o", "t", "o", "_", "_">>}

List(items) == [t |-> "array", items |-> items]

Label(text) == [t |-> "string", text |-> text]

LabelOf(key) ==
    IF key = jpeg THEN Label("JPEG Image")
    ELSE IF key = png THEN Label("PNG Image")
    ELSE IF key = webp THEN Label("WebP Image")
    ELSE IF key = avif THEN Label("AVIF Image")
    ELSE IF key = heic THEN Label("HEIC Image")
    ELSE IF key = gif THEN Label("GIF Image")
    ELSE IF key = bmp THEN Label("BMP Image")
    ELSE Label("TIFF Image")

\* OUTPUT_FORMATS[key] for a string key
Lookup(key) ==
    IF key \in DOMAIN OUTPUT_FORMATS
    THEN [truthy |-> TRUE, label |-> LabelOf(key),
          extensions |-> List(OUTPUT_FORMATS[key].extensions)]
    ELSE IF key \in InheritedKeys
    THEN [truthy |-> TRUE, label |-> Undef, extensions |-> Undef]
    ELSE [truthy |-> FALSE, label |-> Undef, extensions |-> Undef]

RECURSIVE FlatMapExtensions(_)
\* ordered.flatMap(key => OUTPUT_FORMATS[key].extensions)
FlatMapExtensions(keys) ==
    IF keys = <<>> THEN <<>>
    ELSE OUTPUT_FORMATS[Head(keys)].extensions \o FlatMapExtensions(Tail(keys))

RECURSIVE OtherGroups(_, _)
\* ordered.forEach(key => { if (formatKey === key) return; filters.push(...) })
OtherGroups(keys, formatKey) ==
    IF keys = <<>> THEN <<>>
    ELSE IF formatKey = Str(Head(keys)) THEN OtherGroups(Tail(keys), formatKey)
    ELSE <<[name |-> Lookup(Head(keys)).label,
            extensions |-> Lookup(Head(keys)).extensions]>>
         \o OtherGroups(Tail(keys), formatKey)

\* function buildSaveFilters(targetFormat)
buildSaveFilters(target) ==
    LET ordered == <<jpeg, png, webp, avif, heic, gif, bmp, tiff>>
        formatKey == normalizeFormat(target)
        first == IF ~Falsy(formatKey) /\ Lookup(formatKey.v).truthy
                 THEN <<[name |-> Lookup(formatKey.v).label,
                         extensions |-> Lookup(formatKey.v).extensions]>>
                 ELSE <<>>
    IN  first \o OtherGroups(ordered, formatKey)
        \o <<[name |-> Label("All Images"), extensions |-> List(FlatMapExtensions(ordered))]>>

-----------------------------------------------------------------------------
(* The sharp library as encodeOutputBuffer and decode-image use it.  An    *)
(* input buffer is described by what it holds: a decodable image of w x h  *)
(* pixels with 1..4 channels (3 = RGB without alpha, 4 = RGBA), bytes that *)
(* no codec accepts, or no bytes at all.                                   *)

ImageBuffer(w, h, c) == [kind |-> "image", w |-> w, h |-> h, channels |-> c]
CorruptBuffer == [kind |-> "corrupt"]
EmptyBuffer == [kind |-> "empty"]

\* sharp(input, options) throws synchronously on an empty Buffer
SharpConstructorThrows(input) == input.kind = "empty"

\* .toBuffer() resolves only for a decodable image, and then only when the
\* build of the codec library supports the requested operation (codecOk)
SharpResolves(input, codecOk) == input.kind = "image" /\ codecOk

\* .raw().toBuffer({ resolveWithObject: true }): the pixels of the image with
\* the channels the image has; no channel is added
SharpRaw(input) ==
    [data |-> [i \in 1..(input.w * input.h * input.channels) |-> (7 * i + 3) % 256],
     info |-> [width |-> input.w, height |-> input.h, channels |-> input.channels]]

-----------------------------------------------------------------------------
(* encodeOutputBuffer, main.js:128-171 *)

Throw(message) ==
    [threw |-> TRUE, error |-> message, calls |-> <<>>, out |-> [kind |-> "none"]]

\* one call on the sharp pipeline; quality is Undef when none is passed
Call(method, quality) == [m |-> method, quality |-> quality]

QualityWithoutDefault(quality) == quality

\* quality || 90
QualityOrDefault(quality) == IF Falsy(quality) THEN Num(90) ELSE quality

\* the if / else-if chain of lines 152-168: the pipeline calls selected for a
\* format, <<>> for the final else
PipelineFor(format, quality) ==
    IF format = Str(jpeg)
    THEN <<Call("flatten", Undef), Call("jpeg", QualityOrDefault(quality))>>
    ELSE IF format = Str(png) THEN <<Call("png", Undef)>>
    ELSE IF format = Str(webp) THEN <<Call("webp", QualityOrDefault(quality))>>
    ELSE IF format = Str(avif) THEN <<Call("avif", QualityOrDefault(quality))>>
    ELSE IF format = Str(heic) THEN <<Call("heif-hevc", QualityOrDefault(quality))>>
    ELSE IF format = Str(gif) THEN <<Call("gif", Undef)>>
    ELSE IF format = Str(tiff) THEN <<Call("tiff", Undef)>>
    ELSE <<>>

\* async function encodeOutputBuffer(inputBuffer, targetFormat, qualityValue);
\* sharpLoaded is the module variable sharp, codecOk the outcome of the awaited
\* codec call
encodeOutputBuffer(input, target, qualityArg, sharpLoaded, codecOk) ==
    LET format == normalizeFormat(target)
        quality == normalizeQuality(qualityArg)
    IN  IF Falsy(format) THEN Throw("Missing output format")
        ELSE IF format = Str(bmp)
        THEN IF ~sharpLoaded THEN Throw("BMP output requires sharp")
             ELSE IF SharpConstructorThrows(input) THEN Throw("Input Buffer is empty")
             ELSE IF ~SharpResolves(input, codecOk) THEN Throw("codec failure")
             ELSE LET raw == SharpRaw(input)
                  IN  [threw |-> FALSE, error |-> "", calls |-> <<Call("raw", Undef)>>,
                       out |-> [kind |-> "bmp", raw |-> raw,
                                bytes |-> encodeBmp(raw.data, raw.info.width,
                                                    raw.info.height)]]
        ELSE IF ~sharpLoaded THEN Throw("Additional formats require sharp")
        ELSE IF SharpConstructorThrows(input) THEN Throw("Input Buffer is empty")
        ELSE LET pipeline == PipelineFor(format, quality)
             IN  IF pipeline = <<>> THEN Throw("Unsupported output format")
                 ELSE IF ~SharpResolves(input, codecOk) THEN Throw("codec failure")
                 ELSE [threw |-> FALSE, error |-> "", calls |-> pipeline,
                       out |-> [kind |-> "encoded", of |-> input]]

-----------------------------------------------------------------------------
(* State of a main process in which save-image has not been called *)

SaveIdle ==
    /\ savePc = "idle"
    /\ saveArgs = [dataUrl |-> Undef, defaultName |-> Undef, targetFormat |-> Undef,
                   quality |-> Undef]
    /\ saveLocals = [format |-> Null, defaultName |-> Undef, outputPath |-> Null,
                     inputBuffer |-> EmptyBuffer, inputLength |-> 0]
    /\ saveResult = [success |-> FALSE, pending |-> TRUE]
    /\ saveTrace = <<>>
    /\ files = {}
    /\ lastSavedFilePath = Null

Pending == [state |-> "pending"]

LoadIdle ==
    /\ loadPc = "idle"
    /\ loadArgs = [file |-> Null, filePath |-> Null]
    /\ heicDecoder = FALSE
    /\ dispatched = "none"
    /\ decodeArgs = [filePath |-> Null, arrayBuffer |-> Null, dataUrl |-> Undef]
    /\ decodeReply = Pending
    /\ attempts = <<>>
    /\ onErrorCalls = <<>>
    /\ decodeResult = Pending
    /\ loadResult = Pending
    /\ currentCanvas = Null

FnIdle ==
    /\ fnPc = "idle"
    /\ fnName = "none"
    /\ fnArg = Undef
    /\ fnResult = Pending

\* a literal part of a message; the other parts are values (a path, a name)
Text(literal) == [text |-> literal]

\* showStatus(message, type = 'info'): the parts of the message and the type
Status(message, type) == [message |-> message, type |-> type]

\* the renderer before the window has done anything
RendererIdle ==
    /\ currentImage = Null
    /\ currentFile = Null
    /\ currentFileName = Str(<<>>)
    /\ currentFilePath = Null
    /\ selectedFormat = Null
    /\ formatCardsDisabled = TRUE
    /\ activeModal = Null
    /\ statusText = Status(<<Text("Ready")>>, "info")
    /\ loads = <<>>
    /\ conversions = <<>>

\* the main process before any save-image, open-file or
\* open-containing-folder call
MainIdle ==
    /\ saveCalls = 0
    /\ filesAtCall = {}
    /\ everSaved = FALSE
    /\ openCall = Null

\* the log list and the log window at start
LogIdle ==
    /\ logWindow = "none"
    /\ logHandlers = 0
    /\ sharedLogs = <<>>
    /\ added = 0
    /\ sent = <<>>
    /\ windowLogs = <<>>
    /\ loggerLogs = <<>>
    /\ logged = 0

AppIdle == RendererIdle /\ MainIdle /\ LogIdle

-----------------------------------------------------------------------------
(* Inputs of the encodeOutputBuffer specification *)

MaxEncDim == 2

EncInputs ==
    {ImageBuffer(w, h, c) : w \in 1..MaxEncDim, h \in 1..MaxEncDim, c \in 1..4}
        \cup {CorruptBuffer, EmptyBuffer}

TargetTokens ==
    {Null, Undef, Str(<<>>),
     Str(jpg), Str(<<"J", "P", "G">>), Str(jpeg), Str(<<"J", "p", "e", "g">>),
     Str(png), Str(webp), Str(avif), Str(heic), Str(heif),
     Str(<<"H", "E", "I", "F">>), Str(gif), Str(bmp), Str(<<"B", "M", "P">>),
     Str(tif), Str(tiff), Str(<<"x", "y", "z">>), Str(<<"t", "x", "t">>)}

QualityArgs ==
    {Undef, Null, Num(150), Num(0), Num(-5), Num(85), Num(1), Num(100),
     Str(<<"a", "b", "c">>), Str(<<"7", "5">>)}

BmpIdle ==
    /\ bmpPc = "idle"
    /\ width = 0
    /\ height = 0
    /\ pixelData = <<>>
    /\ buffer = <<>>

EncIdle ==
    /\ encPc = "idle"
    /\ inputBuffer = EmptyBuffer
    /\ targetFormat = Null
    /\ qualityValue = Undef
    /\ encResult = Throw("")

EncInit ==
    /\ encPc = "call"
    /\ sharp \in BOOLEAN
    /\ inputBuffer \in EncInputs
    /\ targetFormat \in TargetTokens
    /\ qualityValue \in QualityArgs
    /\ encResult = Throw("")
    /\ BmpIdle
    /\ SaveIdle
    /\ LoadIdle
    /\ FnIdle
    /\ AppIdle

\* encodeOutputBuffer throws, or its awaited codec call rejects
EncodeOutputBufferFails ==
    /\ encPc = "call"
    /\ \E codecOk \in BOOLEAN :
          LET r == encodeOutputBuffer(inputBuffer, targetFormat, qualityValue,
                                      sharp, codecOk)
          IN  /\ r.threw
              /\ encResult' = r
    /\ encPc' = "done"
    /\ UNCHANGED <<sharp, inputBuffer, targetFormat, qualityValue, bmpVars, saveVars>>
    /\ UNCHANGED loadVars
    /\ UNCHANGED fnVars
    /\ UNCHANGED appVars

\* encodeOutputBuffer returns the bytes of the codec library
EncodeOutputBufferCodec ==
    /\ encPc = "call"
    /\ \E codecOk \in BOOLEAN :
          LET r == encodeOutputBuffer(inputBuffer, targetFormat, qualityValue,
                                      sharp, codecOk)
          IN  /\ ~r.threw
              /\ r.out.kind = "encoded"
              /\ encResult' = r
    /\ encPc' = "done"
    /\ UNCHANGED <<sharp, inputBuffer, targetFormat, qualityValue, bmpVars, saveVars>>
    /\ UNCHANGED loadVars
    /\ UNCHANGED fnVars
    /\ UNCHANGED appVars

\* encodeOutputBuffer takes the bmp branch: return encodeBmp(raw.data,
\* raw.info.width, raw.info.height)
EncodeOutputBufferBmp ==
    /\ encPc = "call"
    /\ \E codecOk \in BOOLEAN :
          LET r == encodeOutputBuffer(inputBuffer, targetFormat, qualityValue,
                                      sharp, codecOk)
          IN  /\ ~r.threw
              /\ r.out.kind = "bmp"
              /\ encResult' = r
              /\ pixelData' = r.out.raw.data
              /\ width' = r.out.raw.info.width
              /\ height' = r.out.raw.info.height
              /\ buffer' = r.out.bytes
              /\ bmpPc' = "done"
    /\ encPc' = "done"
    /\ UNCHANGED <<sharp, inputBuffer, targetFormat, qualityValue, saveVars>>
    /\ UNCHANGED loadVars
    /\ UNCHANGED fnVars
    /\ UNCHANGED appVars

EncNext == EncodeOutputBufferFails \/ EncodeOutputBufferCodec \/ EncodeOutputBufferBmp

SpecEncode == EncInit /\ [][EncNext]_vars

-----------------------------------------------------------------------------
(* Data URLs, parseDataUrl (main.js:39-49).  A data URL with a long        *)
(* payload is described by its head (the characters up to and including    *)
(* the comma), the number of characters of its base64 payload, the number  *)
(* of trailing '=' among them, and the content the payload decodes to.     *)

DataUrl(head, chars, pad, holds) ==
    [t |-> "string", head |-> head, payload |-> [chars |-> chars, pad |-> pad],
     holds |-> holds]

IsDataUrl(v) == "head" \in DOMAIN v

DataScheme == <<"d", "a", "t", "a", ":">>

Base64Marker == <<";", "b", "a", "s", "e", "6", "4", ",">>

PngHead == DataScheme \o <<"i", "m", "a", "g", "e", "/", "p", "n", "g">> \o Base64Marker

\* the head part of /^data:([^;]+);base64,(.+)$/
HeadMatches(head) ==
    /\ StartsWith(head, DataScheme)
    /\ EndsWith(head, Base64Marker)
    /\ Len(head) > Len(DataScheme) + Len(Base64Marker)
    /\ \A i \in (Len(DataScheme) + 1)..(Len(head) - Len(Base64Marker)) : head[i] # ";"

\* Buffer.from(base64Data, 'base64').length
Base64DecodedLength(payload) == ((payload.chars - payload.pad) * 3) \div 4

\* the characters Buffer.from(..., 'base64') decodes: A-Z a-z 0-9 + / - _
IsBase64Char(c) ==
    \/ \E i \in 1..26 : c = UpperCase[i] \/ c = LowerCase[i]
    \/ IsDigit(c)
    \/ c \in {"+", "/", "-", "_"}

\* Buffer.from(text, 'base64').length for a short text: the decoder never
\* throws; it stops at the first '=' and skips every character outside the
\* alphabet
Base64Length(text) ==
    LET stop == IF \E i \in 1..Len(text) : text[i] = "="
                THEN CHOOSE i \in 1..Len(text) :
                        text[i] = "=" /\ \A j \in 1..(i - 1) : text[j] # "="
                ELSE Len(text) + 1
        decoded == {i \in 1..(stop - 1) : IsBase64Char(text[i])}
    IN  (Cardinality(decoded) * 3) \div 4

\* the payload of the base64 encoding of n bytes
PayloadOfLength(n) == [chars |-> 4 * ((n + 2) \div 3), pad |-> (3 - (n % 3)) % 3]

\* function parseDataUrl(dataUrl): the bytes, or the error thrown; a plain
\* string is a data URL when a prefix of it is a head and characters follow
parseDataUrl(dataUrl) ==
    IF IsDataUrl(dataUrl)
    THEN IF ~(HeadMatches(dataUrl.head) /\ dataUrl.payload.chars >= 1)
         THEN [threw |-> TRUE, error |-> "Invalid data URL format"]
         ELSE [threw |-> FALSE, holds |-> dataUrl.holds,
               length |-> Base64DecodedLength(dataUrl.payload)]
    ELSE LET str == JsString(dataUrl)
             heads == {k \in 1..(Len(str) - 1) : HeadMatches(SubSeq(str, 1, k))}
         IN  IF heads = {}
             THEN [threw |-> TRUE, error |-> "Invalid data URL format"]
             ELSE LET k == CHOOSE h \in heads : \A g \in heads : h <= g
                      base64Data == SubSeq(str, k + 1, Len(str))
                  IN  [threw |-> FALSE, holds |-> CorruptBuffer,
                       length |-> Base64Length(base64Data)]

\* function ensureExtension(filePath, extension)
ensureExtension(filePath, extension) ==
    IF ExtName(filePath) = <<>> THEN filePath \o <<".">> \o extension ELSE filePath

-----------------------------------------------------------------------------
(* ipcMain.handle('save-image'), main.js:621-706 *)

\* const MAX_SIZE = 100 * 1024 * 1024
MAX_SIZE == 100 * 1024 * 1024

SizeExceededInclusive(length) == length >= MAX_SIZE

\* if (inputBuffer.length > MAX_SIZE)
SizeExceeded(length) == length > MAX_SIZE

ConvertedImage == <<"c", "o", "n", "v", "e", "r", "t", "e", "d", "_",
                    "i", "m", "a", "g", "e">>

\* the catch of line 698: { success: false, error: err.message, code: err.code }
SaveFailure(message, code) == [success |-> FALSE, error |-> message, code |-> code]

SaveCancelled == [success |-> FALSE, cancelled |-> TRUE]

SaveSuccessWithoutFormat(path, size, format) ==
    [success |-> TRUE, path |-> path, size |-> size]

\* return { success: true, path: outputPath, size: outputBuffer.length, format }
SaveSuccess(path, size, format) ==
    [success |-> TRUE, path |-> path, size |-> size, format |-> format]

\* format ? OUTPUT_FORMATS[format] : null
FormatInfo(format) ==
    IF ~Falsy(format) /\ format.v \in DOMAIN OUTPUT_FORMATS
    THEN [found |-> TRUE, inherited |-> FALSE,
          extensions |-> OUTPUT_FORMATS[format.v].extensions]
    ELSE IF ~Falsy(format) /\ format.v \in InheritedKeys
    THEN [found |-> FALSE, inherited |-> TRUE, extensions |-> <<>>]
    ELSE [found |-> FALSE, inherited |-> FALSE, extensions |-> <<>>]

\* lines 623-644: the work before the save dialog opens; either the error the
\* try block throws or the format and default name the dialog is opened with
BeforeDialog(a) ==
    IF Falsy(a.dataUrl) \/ a.dataUrl.t # "string"
    THEN [threw |-> TRUE, error |-> "Invalid image data provided", code |-> Undef]
    ELSE LET format0 == normalizeFormat(a.targetFormat)
             fromName == Falsy(format0) /\ ~Falsy(a.defaultName)
         IN  IF fromName /\ a.defaultName.t # "string"
             THEN [threw |-> TRUE, error |-> "The \"path\" argument must be of type string",
                   code |-> Str(<<"E", "R", "R">>)]
             ELSE LET format == IF fromName
                                THEN normalizeFormat(Str(RemoveFirstDot(
                                         ToLowerCase(ExtName(a.defaultName.v)))))
                                ELSE format0
                      info == FormatInfo(format)
                      name1 == IF Falsy(a.defaultName) \/ a.defaultName.t # "string"
                               THEN IF info.found
                                    THEN ConvertedImage \o <<".">> \o info.extensions[1]
                                    ELSE ConvertedImage \o <<".">> \o jpg
                               ELSE a.defaultName.v
                      currentExt == RemoveFirstDot(ToLowerCase(ExtName(name1)))
                      name2 == IF info.found /\ ~Includes(info.extensions, currentExt)
                               THEN StripExtension(name1) \o <<".">> \o info.extensions[1]
                               ELSE name1
                  IN  IF info.inherited
                      THEN [threw |-> TRUE,
                            error |-> "Cannot read properties of undefined",
                            code |-> Undef]
                      ELSE [threw |-> FALSE, format |-> format,
                            defaultName |-> Str(name2)]

\* lines 673-697: write the output, verify it, remember the path; the outcome
\* of fs.writeFileSync and of fs.statSync is the file system's
WriteAndVerify(outputPath, size, format, writeOutcome, statOutcome) ==
    IF writeOutcome # "ok"
    THEN [result |-> SaveFailure(
                         IF writeOutcome = "EACCES"
                         THEN "Permission denied. Cannot write to selected location."
                         ELSE IF writeOutcome = "ENOSPC"
                         THEN "Not enough disk space to save file."
                         ELSE IF writeOutcome = "EBUSY"
                         THEN "File is locked by another program."
                         ELSE "Failed to write file", Undef),
          written |-> {}, saved |-> FALSE,
          trace |-> <<"writeFileSync">>]
    ELSE IF statOutcome # "ok"
    THEN [result |-> SaveFailure("Failed to verify saved file", Undef),
          written |-> {[path |-> outputPath, size |-> size]}, saved |-> FALSE,
          trace |-> <<"writeFileSync", "statSync">>]
    ELSE IF size = 0
    THEN [result |-> SaveFailure("Failed to verify saved file: File was created but is empty",
                                 Undef),
          written |-> {[path |-> outputPath, size |-> size]}, saved |-> FALSE,
          trace |-> <<"writeFileSync", "statSync">>]
    ELSE [result |-> SaveSuccess(outputPath, size, format),
          written |-> {[path |-> outputPath, size |-> size]}, saved |-> TRUE,
          trace |-> <<"writeFileSync", "statSync">>]

WriteOutcomes == {"ok", "EACCES", "ENOSPC", "EBUSY", "EIO"}

StatOutcomes == {"ok", "ENOENT"}

\* the paths the user can pick in the save dialog
DialogPaths == {<<"o", ".", "j", "p", "g">>, <<"o">>, <<"o", ".", "b", "m", "p">>}

\* the number of bytes the codec library returns for an image (any positive
\* number; it is not the size of the input)
EncodedLength(image) == 64 + image.w * image.h

OutputLength(out) ==
    IF out.kind = "bmp" THEN Len(out.bytes) ELSE EncodedLength(out.of)

\* the handler throws before the dialog opens and returns the failure
SaveImageRejectsArguments ==
    /\ savePc = "call"
    /\ BeforeDialog(saveArgs).threw
    /\ saveResult' = SaveFailure(BeforeDialog(saveArgs).error, BeforeDialog(saveArgs).code)
    /\ savePc' = "done"
    /\ UNCHANGED <<saveArgs, saveLocals, saveTrace, files, lastSavedFilePath,
                   sharp, bmpVars, encPc, inputBuffer, targetFormat, qualityValue,
                   encResult>>
    /\ UNCHANGED loadVars
    /\ UNCHANGED fnVars
    /\ UNCHANGED appVars

\* await dialog.showSaveDialog(...)
SaveImageShowsDialog ==
    /\ savePc = "call"
    /\ ~BeforeDialog(saveArgs).threw
    /\ saveLocals' = [saveLocals EXCEPT !.format = BeforeDialog(saveArgs).format,
                                        !.defaultName = BeforeDialog(saveArgs).defaultName]
    /\ saveTrace' = Append(saveTrace, "showSaveDialog")
    /\ savePc' = "dialog"
    /\ UNCHANGED <<saveArgs, saveResult, files, lastSavedFilePath,
                   sharp, bmpVars, encPc, inputBuffer, targetFormat, qualityValue,
                   encResult>>
    /\ UNCHANGED loadVars
    /\ UNCHANGED fnVars
    /\ UNCHANGED appVars

\* if (result.canceled || !result.filePath) return { success: false, cancelled: true }
SaveDialogCancelled ==
    /\ savePc = "dialog"
    /\ saveResult' = SaveCancelled
    /\ savePc' = "done"
    /\ UNCHANGED <<saveArgs, saveLocals, saveTrace, files, lastSavedFilePath,
                   sharp, bmpVars, encPc, inputBuffer, targetFormat, qualityValue,
                   encResult>>
    /\ UNCHANGED loadVars
    /\ UNCHANGED fnVars
    /\ UNCHANGED appVars

\* lines 656-659: the output path for the path the user picked
OutputPath(filePath) ==
    IF FormatInfo(saveLocals.format).found
    THEN ensureExtension(filePath, FormatInfo(saveLocals.format).extensions[1])
    ELSE filePath

\* the dialog returned a path; parseDataUrl throws
SaveParseFails ==
    /\ savePc = "dialog"
    /\ \E filePath \in DialogPaths :
          saveLocals' = [saveLocals EXCEPT !.outputPath = Str(OutputPath(filePath))]
    /\ parseDataUrl(saveArgs.dataUrl).threw
    /\ saveTrace' = Append(saveTrace, "parseDataUrl")
    /\ saveResult' = SaveFailure(parseDataUrl(saveArgs.dataUrl).error, Undef)
    /\ savePc' = "done"
    /\ UNCHANGED <<saveArgs, files, lastSavedFilePath,
                   sharp, bmpVars, encPc, inputBuffer, targetFormat, qualityValue,
                   encResult>>
    /\ UNCHANGED loadVars
    /\ UNCHANGED fnVars
    /\ UNCHANGED appVars

\* the dialog returned a path; the parsed input is larger than MAX_SIZE
SaveSizeExceeded ==
    /\ savePc = "dialog"
    /\ ~parseDataUrl(saveArgs.dataUrl).threw
    /\ SizeExceeded(parseDataUrl(saveArgs.dataUrl).length)
    /\ \E filePath \in DialogPaths :
          saveLocals' = [saveLocals EXCEPT
                            !.outputPath = Str(OutputPath(filePath)),
                            !.inputBuffer = parseDataUrl(saveArgs.dataUrl).holds,
                            !.inputLength = parseDataUrl(saveArgs.dataUrl).length]
    /\ saveTrace' = saveTrace \o <<"parseDataUrl", "sizeCheck">>
    /\ saveResult' = SaveFailure("Image too large", Undef)
    /\ savePc' = "done"
    /\ UNCHANGED <<saveArgs, files, lastSavedFilePath,
                   sharp, bmpVars, encPc, inputBuffer, targetFormat, qualityValue,
                   encResult>>
    /\ UNCHANGED loadVars
    /\ UNCHANGED fnVars
    /\ UNCHANGED appVars

\* the dialog returned a path, the input passed the size check and a format
\* is set: await encodeOutputBuffer(inputBuffer, format, quality)
SaveStartsEncoding ==
    /\ savePc = "dialog"
    /\ ~parseDataUrl(saveArgs.dataUrl).threw
    /\ ~SizeExceeded(parseDataUrl(saveArgs.dataUrl).length)
    /\ ~Falsy(saveLocals.format)
    /\ \E filePath \in DialogPaths :
          saveLocals' = [saveLocals EXCEPT
                            !.outputPath = Str(OutputPath(filePath)),
                            !.inputBuffer = parseDataUrl(saveArgs.dataUrl).holds,
                            !.inputLength = parseDataUrl(saveArgs.dataUrl).length]
    /\ saveTrace' = saveTrace \o <<"parseDataUrl", "sizeCheck", "encodeOutputBuffer">>
    /\ savePc' = "encoding"
    /\ UNCHANGED <<saveArgs, saveResult, files, lastSavedFilePath,
                   sharp, bmpVars, encPc, inputBuffer, targetFormat, qualityValue,
                   encResult>>
    /\ UNCHANGED loadVars
    /\ UNCHANGED fnVars
    /\ UNCHANGED appVars

\* the dialog returned a path, the input passed the size check and no format
\* is set: the input bytes are the output
SaveWritesInputAsIs ==
    /\ savePc = "dialog"
    /\ ~parseDataUrl(saveArgs.dataUrl).threw
    /\ ~SizeExceeded(parseDataUrl(saveArgs.dataUrl).length)
    /\ Falsy(saveLocals.format)
    /\ \E filePath \in DialogPaths, w \in WriteOutcomes, st \in StatOutcomes :
          LET parsed == parseDataUrl(saveArgs.dataUrl)
              fin == WriteAndVerify(Str(OutputPath(filePath)), parsed.length,
                                    saveLocals.format, w, st)
          IN  /\ saveLocals' = [saveLocals EXCEPT
                                   !.outputPath = Str(OutputPath(filePath)),
                                   !.inputBuffer = parsed.holds,
                                   !.inputLength = parsed.length]
              /\ saveTrace' = saveTrace \o <<"parseDataUrl", "sizeCheck">> \o fin.trace
              /\ files' = files \cup fin.written
              /\ lastSavedFilePath' = IF fin.saved THEN Str(OutputPath(filePath))
                                      ELSE lastSavedFilePath
              /\ saveResult' = fin.result
    /\ savePc' = "done"
    /\ UNCHANGED <<saveArgs, sharp, bmpVars, encPc, inputBuffer, targetFormat,
                   qualityValue, encResult>>
    /\ UNCHANGED loadVars
    /\ UNCHANGED fnVars
    /\ UNCHANGED appVars

\* the awaited encodeOutputBuffer throws
SaveEncodeFails ==
    /\ savePc = "encoding"
    /\ \E codecOk \in BOOLEAN :
          LET r == encodeOutputBuffer(saveLocals.inputBuffer, saveLocals.format,
                                      saveArgs.quality, sharp, codecOk)
          IN  /\ r.threw
              /\ saveResult' = SaveFailure(r.error, Undef)
    /\ savePc' = "done"
    /\ UNCHANGED <<saveArgs, saveLocals, saveTrace, files, lastSavedFilePath,
                   sharp, bmpVars, encPc, inputBuffer, targetFormat, qualityValue,
                   encResult>>
    /\ UNCHANGED loadVars
    /\ UNCHANGED fnVars
    /\ UNCHANGED appVars

\* the awaited encodeOutputBuffer returns the output bytes, which are written
SaveWritesEncoded ==
    /\ savePc = "encoding"
    /\ \E codecOk \in BOOLEAN, w \in WriteOutcomes, st \in StatOutcomes :
          LET r == encodeOutputBuffer(saveLocals.inputBuffer, saveLocals.format,
                                      saveArgs.quality, sharp, codecOk)
              fin == WriteAndVerify(saveLocals.outputPath, OutputLength(r.out),
                                    saveLocals.format, w, st)
          IN  /\ ~r.threw
              /\ saveTrace' = saveTrace \o fin.trace
              /\ files' = files \cup fin.written
              /\ lastSavedFilePath' = IF fin.saved THEN saveLocals.outputPath
                                      ELSE lastSavedFilePath
              /\ saveResult' = fin.result
    /\ savePc' = "done"
    /\ UNCHANGED <<saveArgs, saveLocals, sharp, bmpVars, encPc, inputBuffer,
                   targetFormat, qualityValue, encResult>>
    /\ UNCHANGED loadVars
    /\ UNCHANGED fnVars
    /\ UNCHANGED appVars

-----------------------------------------------------------------------------
(* Inputs of the save-image specification *)

SmallImage == ImageBuffer(1, 1, 4)

SaveDataUrls ==
    {Undef, Str(<<>>), Num(5), Str(<<"h", "t", "t", "p", ":", "x">>),
     DataUrl(<<"d", "a", "t", "a", ":", ",">>, 92, 1, SmallImage),
     DataUrl(PngHead, 1, 1, EmptyBuffer),
     DataUrl(PngHead, 92, 1, SmallImage),
     DataUrl(PngHead, 92, 1, CorruptBuffer),
     DataUrl(PngHead, PayloadOfLength(MAX_SIZE - 1).chars,
             PayloadOfLength(MAX_SIZE - 1).pad, SmallImage),
     DataUrl(PngHead, PayloadOfLength(MAX_SIZE).chars,
             PayloadOfLength(MAX_SIZE).pad, SmallImage),
     DataUrl(PngHead, PayloadOfLength(MAX_SIZE + 1).chars,
             PayloadOfLength(MAX_SIZE + 1).pad, SmallImage),
     DataUrl(PngHead, PayloadOfLength(101 * 1024 * 1024).chars,
             PayloadOfLength(101 * 1024 * 1024).pad, SmallImage)}

SaveDefaultNames ==
    {Undef, Num(7), Str(<<"p", ".", "j", "p", "g">>), Str(<<"p", ".", "P", "N", "G">>),
     Str(<<"p", ".", "x", "y", "z">>), Str(<<"p">>)}

SaveTargets ==
    {Undef, Str(<<>>), Str(jpeg), Str(<<"J", "P", "G">>), Str(png), Str(bmp),
     Str(<<"x", "y", "z">>),
     Str(<<"c", "o", "n", "s", "t", "r", "u", "c", "t", "o", "r">>)}

SaveQualities == {Undef, Num(150), Num(80)}

SaveInit ==
    /\ savePc = "call"
    /\ saveArgs \in [dataUrl : SaveDataUrls, defaultName : SaveDefaultNames,
                     targetFormat : SaveTargets, quality : SaveQualities]
    /\ saveLocals = [format |-> Null, defaultName |-> Undef, outputPath |-> Null,
                     inputBuffer |-> EmptyBuffer, inputLength |-> 0]
    /\ saveResult = [success |-> FALSE, pending |-> TRUE]
    /\ saveTrace = <<>>
    /\ files = {}
    /\ lastSavedFilePath = Null
    /\ sharp \in BOOLEAN
    /\ BmpIdle
    /\ EncIdle
    /\ LoadIdle
    /\ FnIdle
    /\ AppIdle

SaveNext ==
    \/ SaveImageRejectsArguments
    \/ SaveImageShowsDialog
    \/ SaveDialogCancelled
    \/ SaveParseFails
    \/ SaveSizeExceeded
    \/ SaveStartsEncoding
    \/ SaveWritesInputAsIs
    \/ SaveEncodeFails
    \/ SaveWritesEncoded

SpecSave == SaveInit /\ [][SaveNext]_vars

-----------------------------------------------------------------------------
(* Inputs of the encodeBmp specification: RGBA buffers of length w*h*4.    *)
(* Pattern 0 is opaque red, pattern 1 marks every alpha byte with 255 and  *)
(* keeps R, G, B below 200, the others are ramps in which neighbouring     *)
(* bytes, pixels and rows differ.                                          *)

PatternByte(k, i) ==
    LET c == i % 4
    IN  IF k = 0 THEN (IF c = 0 \/ c = 3 THEN 255 ELSE 0)
        ELSE IF k = 1 THEN (IF c = 3 THEN 255 ELSE ((i \div 4) * 3 + c) % 200)
        ELSE ((2 * k + 1) * i + 13 * k) % 256

RgbaPattern(k, w, h) == [i \in 1..(w * h * 4) |-> PatternByte(k, i - 1)]

BmpDims == ((1..MaxW) \X (1..MaxH)) \cup {<<100, 50>>}

BmpInit ==
    /\ bmpPc = "call"
    /\ \E d \in BmpDims, k \in 0..(NumPatterns - 1) :
          /\ width = d[1]
          /\ height = d[2]
          /\ pixelData = RgbaPattern(k, d[1], d[2])
    /\ buffer = <<>>
    /\ EncIdle
    /\ sharp = FALSE
    /\ SaveIdle
    /\ LoadIdle
    /\ FnIdle
    /\ AppIdle

\* one call encodeBmp(pixelData, width, height)
EncodeBmpCall ==
    /\ bmpPc = "call"
    /\ buffer' = encodeBmp(pixelData, width, height)
    /\ bmpPc' = "done"
    /\ UNCHANGED <<width, height, pixelData, encVars, saveVars>>
    /\ UNCHANGED loadVars
    /\ UNCHANGED fnVars
    /\ UNCHANGED appVars

BmpNext == EncodeBmpCall

SpecBmp == BmpInit /\ [][BmpNext]_vars

-----------------------------------------------------------------------------
(* File classification: HeicDecoder.isHeicFile / isAvifFile / validateFile *)
(* (heic-decoder.js:386-447), isTiffFile and handleFile (renderer).        *)
(* A file is [name, type, size, path]; a Blob without a name has           *)
(* name = Undef, a source that declares no type has type = "".             *)

ImagePrefix == <<"i", "m", "a", "g", "e", "/">>

MimeType(subtype) == ImagePrefix \o subtype

Dot(extension) == <<".">> \o extension

\* (file.type || '').toLowerCase()
LowerType(file) == IF Falsy(file.type) THEN <<>> ELSE ToLowerCase(file.type.v)

isHeicFile(file) ==
    IF Falsy(file) \/ Falsy(file.name) THEN FALSE
    ELSE LET name == ToLowerCase(file.name.v)
             type == LowerType(file)
         IN  \/ type = MimeType(heic)
             \/ type = MimeType(heif)
             \/ EndsWith(name, Dot(heic))
             \/ EndsWith(name, Dot(heif))

isAvifFile(file) ==
    IF Falsy(file) \/ Falsy(file.name) THEN FALSE
    ELSE LET name == ToLowerCase(file.name.v)
             type == LowerType(file)
         IN  type = MimeType(avif) \/ EndsWith(name, Dot(avif))

isSupportedFile(file) == isHeicFile(file) \/ isAvifFile(file)

isTiffFile(file) ==
    IF Falsy(file) \/ Falsy(file.name) THEN FALSE
    ELSE LET name == ToLowerCase(file.name.v)
             type == LowerType(file)
         IN  \/ type = MimeType(tiff)
             \/ EndsWith(name, Dot(tif))
             \/ EndsWith(name, Dot(tiff))

\* const MAX_SIZE = 100 * 1024 * 1024 of validateFile
ValidateMaxSize == 100 * 1024 * 1024

validateFile(file) ==
    IF Falsy(file)
    THEN [valid |-> FALSE, error |-> "No file provided"]
    ELSE IF ~isSupportedFile(file)
    THEN [valid |-> FALSE, error |-> "File is not a valid HEIC/HEIF/AVIF image"]
    ELSE IF file.size > ValidateMaxSize
    THEN [valid |-> FALSE, error |-> "File too large"]
    ELSE IF file.size = 0
    THEN [valid |-> FALSE, error |-> "File is empty (0 bytes)"]
    ELSE [valid |-> TRUE, error |-> ""]

standardExtensions ==
    <<Dot(jpg), Dot(jpeg), Dot(png), Dot(webp), Dot(gif), Dot(bmp), Dot(tif), Dot(tiff)>>

hasStandardExtension(file) ==
    IF Falsy(file.name) THEN FALSE
    ELSE \E i \in DOMAIN standardExtensions :
            EndsWith(ToLowerCase(file.name.v), standardExtensions[i])

\* (file.type && file.type.startsWith('image/')) || hasStandardExtension
isStandardImage(file) ==
    \/ ~Falsy(file.type) /\ StartsWith(file.type.v, ImagePrefix)
    \/ hasStandardExtension(file)

\* the handler handleFile chooses for a file (lines 563-600 of the renderer)
Dispatch(file, decoder) ==
    LET isHeic == decoder /\ isHeicFile(file)
        isAvif == decoder /\ isAvifFile(file)
        isTiff == isTiffFile(file)
        isWasmDecoded == isHeic \/ isAvif
        isSharpDecoded == isTiff
    IN  IF ~isStandardImage(file) /\ ~isWasmDecoded /\ ~isSharpDecoded
        THEN "unsupported"
        ELSE IF isWasmDecoded THEN (IF isHeic THEN "HEIC" ELSE "AVIF")
        ELSE IF isSharpDecoded THEN "TIFF"
        ELSE "standard"

-----------------------------------------------------------------------------
(* Errors: the message is a sequence of fragments, so that a message built *)
(* from another one ('prefix: ' + err.message) contains its fragments.     *)

Err(fragments) == [message |-> fragments]

Returned(canvas) == [state |-> "returned", canvas |-> canvas]

Threw(error) == [state |-> "threw", error |-> error]

Canvas(drawnBy) == [canvas |-> drawnBy]

Loaded(via) == [state |-> "loaded", via |-> via]

Failed(error) == [state |-> "failed", error |-> error]

\* one run of a decoder: the bytes it was given, whether it produced an image,
\* the error it raised and the dimensions it reported (Null when it raised
\* before reporting any)
Attempt(decoder, bytes, ok, error, dims) ==
    [decoder |-> decoder, bytes |-> bytes, ok |-> ok, error |-> error, dims |-> dims]

\* the side of a decoded image that has pixels
DecodedSide == 3

Dims(w, h) == [width |-> w, height |-> h]

\* `${width}x${height}` of the error messages
SideText(side) == IF side.t = "number" THEN ToString(side.n) ELSE side.t

DimensionsText(dims) == <<SideText(dims.width), "x", SideText(dims.height)>>

\* what image.get_width() and image.get_height() of libheif can report
WasmDims ==
    {Dims(Num(DecodedSide), Num(DecodedSide)), Dims(Num(0), Num(DecodedSide)),
     Dims(Num(DecodedSide), Num(0)), Dims(Num(-1), Num(DecodedSide)),
     Dims(Num(DecodedSide), Num(-1)), Dims(Undef, Num(DecodedSide))}

\* width and height of an ImageBitmap, naturalWidth and naturalHeight of an
\* Image element
ElementDims ==
    {Dims(Num(DecodedSide), Num(DecodedSide)), Dims(Num(0), Num(DecodedSide)),
     Dims(Num(DecodedSide), Num(0)), Dims(Num(0), Num(0))}

\* decoded?.info?.width and decoded?.info?.height of sharp's toBuffer
SharpDims ==
    {Dims(Num(DecodedSide), Num(DecodedSide)), Dims(Num(0), Num(DecodedSide)),
     Dims(Num(DecodedSide), Undef), Dims(Undef, Undef)}

ValidWasmDimsNonZero(dims) == ~(Falsy(dims.width) \/ Falsy(dims.height))

\* if (!width || !height || width <= 0 || height <= 0) reject (line 286)
ValidWasmDims(dims) ==
    ~(Falsy(dims.width) \/ Falsy(dims.height) \/ dims.width.n <= 0 \/ dims.height.n <= 0)

\* if (!bitmap.width || !bitmap.height) throw (line 327), the same test on
\* naturalWidth and naturalHeight (line 355) and on decoded.info (main.js:606)
ValidDims(dims) == ~(Falsy(dims.width) \/ Falsy(dims.height))

\* if (img.naturalWidth === 0 || img.naturalHeight === 0) reject (renderer)
ValidStandardDims(dims) == ~(dims.width = Num(0) \/ dims.height = Num(0))

\* the rejections of _decodeWithLibheif (heic-decoder.js:269-320)
WasmFailures ==
    {[outcome |-> o, dims |-> Null] : o \in {"noImages", "throws"}}
    \cup {[outcome |-> "badDimensions", dims |-> d] :
              d \in {x \in WasmDims : ~ValidWasmDims(x)}}

WasmError(failure) ==
    IF failure.outcome = "noImages"
    THEN Err(<<"Failed to decode image: no images found in file">>)
    ELSE IF failure.outcome = "badDimensions"
    THEN Err(<<"Invalid image dimensions: ">> \o DimensionsText(failure.dims))
    ELSE Err(<<"Decode error: ", "libheif exception">>)

\* the rejections of the Image element of _decodeAvifNatively (lines 349-378)
ImageFailures ==
    {[outcome |-> "onerror", dims |-> Null]}
    \cup {[outcome |-> "badDimensions", dims |-> d] :
              d \in {x \in ElementDims : ~ValidDims(x)}}

NativeError(failure) ==
    IF failure.outcome = "badDimensions"
    THEN Err(<<"Native AVIF decode failed: ", "Invalid image dimensions: ">>
             \o DimensionsText(failure.dims))
    ELSE Err(<<"Native AVIF decode failed">>)

\* the rejections of _fileToArrayBuffer (lines 449-476)
ReadError(outcome) ==
    IF outcome = "error" THEN Err(<<"File read error: ", "NotReadableError">>)
    ELSE Err(<<"File reading was aborted">>)

FallbackNever(file) == FALSE

\* if (this.isAvifFile(file)) in the catch of decode (line 256)
FallbackApplies(file) == isAvifFile(file)

-----------------------------------------------------------------------------
(* handleFile (renderer) and the handlers it dispatches to *)

File == loadArgs.file

\* currentFilePath = filePath || file.path || null
CurrentFilePath ==
    IF ~Falsy(loadArgs.filePath) THEN loadArgs.filePath
    ELSE IF ~Falsy(File.path) THEN File.path
    ELSE Null

\* if (!file) { showStatus('No file provided', 'error'); return; }
HandleFileNoFile ==
    /\ loadPc = "start"
    /\ Falsy(File)
    /\ loadResult' = Failed(Err(<<"No file provided">>))
    /\ loadPc' = "done"
    /\ UNCHANGED <<loadArgs, heicDecoder, dispatched, decodeArgs, decodeReply,
                   attempts, onErrorCalls, decodeResult, currentCanvas>>
    /\ UNCHANGED <<bmpVars, encVars, saveVars>>
    /\ UNCHANGED fnVars
    /\ UNCHANGED appVars

\* if (!isStandardImage && !isWasmDecoded && !isSharpDecoded) { ...; return; }
HandleFileUnsupported ==
    /\ loadPc = "start"
    /\ ~Falsy(File)
    /\ Dispatch(File, heicDecoder) = "unsupported"
    /\ dispatched' = "unsupported"
    /\ loadResult' = Failed(Err(<<"Please select an image file">>))
    /\ loadPc' = "done"
    /\ UNCHANGED <<loadArgs, heicDecoder, decodeArgs, decodeReply,
                   attempts, onErrorCalls, decodeResult, currentCanvas>>
    /\ UNCHANGED <<bmpVars, encVars, saveVars>>
    /\ UNCHANGED fnVars
    /\ UNCHANGED appVars

\* handleWasmDecodedFile: validateFile rejects the file, the throw is caught
\* by handleFile
HandleFileWasmInvalid ==
    /\ loadPc = "start"
    /\ ~Falsy(File)
    /\ Dispatch(File, heicDecoder) \in {"HEIC", "AVIF"}
    /\ ~validateFile(File).valid
    /\ dispatched' = Dispatch(File, heicDecoder)
    /\ loadResult' = Failed(Err(<<validateFile(File).error>>))
    /\ loadPc' = "done"
    /\ UNCHANGED <<loadArgs, heicDecoder, decodeArgs, decodeReply,
                   attempts, onErrorCalls, decodeResult, currentCanvas>>
    /\ UNCHANGED <<bmpVars, encVars, saveVars>>
    /\ UNCHANGED fnVars
    /\ UNCHANGED appVars

\* handleWasmDecodedFile: the file is valid, heicDecoder.decode starts to
\* read it (await this._fileToArrayBuffer(file))
HandleFileWasmReads ==
    /\ loadPc = "start"
    /\ ~Falsy(File)
    /\ Dispatch(File, heicDecoder) \in {"HEIC", "AVIF"}
    /\ validateFile(File).valid
    /\ dispatched' = Dispatch(File, heicDecoder)
    /\ loadPc' = "reading"
    /\ UNCHANGED <<loadArgs, heicDecoder, decodeArgs, decodeReply, attempts,
                   onErrorCalls, decodeResult, loadResult, currentCanvas>>
    /\ UNCHANGED <<bmpVars, encVars, saveVars>>
    /\ UNCHANGED fnVars
    /\ UNCHANGED appVars

\* handleSharpDecodedFile with a file path: invoke('decode-image', { filePath })
HandleFileSharpWithPath ==
    /\ loadPc = "start"
    /\ ~Falsy(File)
    /\ Dispatch(File, heicDecoder) = "TIFF"
    /\ ~Falsy(CurrentFilePath)
    /\ dispatched' = "TIFF"
    /\ decodeArgs' = [filePath |-> [path |-> CurrentFilePath, bytes |-> File.size],
                      arrayBuffer |-> Null, dataUrl |-> Undef]
    /\ loadPc' = "ipc"
    /\ UNCHANGED <<loadArgs, heicDecoder, decodeReply, attempts,
                   onErrorCalls, decodeResult, loadResult, currentCanvas>>
    /\ UNCHANGED <<bmpVars, encVars, saveVars>>
    /\ UNCHANGED fnVars
    /\ UNCHANGED appVars

\* handleSharpDecodedFile without a path: await file.arrayBuffer()
HandleFileSharpReads ==
    /\ loadPc = "start"
    /\ ~Falsy(File)
    /\ Dispatch(File, heicDecoder) = "TIFF"
    /\ Falsy(CurrentFilePath)
    /\ dispatched' = "TIFF"
    /\ loadPc' = "sharpRead"
    /\ UNCHANGED <<loadArgs, heicDecoder, decodeArgs, decodeReply, attempts,
                   onErrorCalls, decodeResult, loadResult, currentCanvas>>
    /\ UNCHANGED <<bmpVars, encVars, saveVars>>
    /\ UNCHANGED fnVars
    /\ UNCHANGED appVars

\* handleStandardImage: reader.readAsDataURL(file)
HandleFileStandard ==
    /\ loadPc = "start"
    /\ ~Falsy(File)
    /\ Dispatch(File, heicDecoder) = "standard"
    /\ dispatched' = "standard"
    /\ loadPc' = "standardRead"
    /\ UNCHANGED <<loadArgs, heicDecoder, decodeArgs, decodeReply, attempts,
                   onErrorCalls, decodeResult, loadResult, currentCanvas>>
    /\ UNCHANGED <<bmpVars, encVars, saveVars>>
    /\ UNCHANGED fnVars
    /\ UNCHANGED appVars

-----------------------------------------------------------------------------
(* HeicDecoder.decode, heic-decoder.js:244-267 *)

\* _fileToArrayBuffer rejects: it is awaited outside the try block, so decode
\* throws without calling onError and without any decode attempt
WasmReadFails ==
    /\ loadPc = "reading"
    /\ \E outcome \in {"error", "abort"} :
          /\ decodeResult' = Threw(ReadError(outcome))
          /\ loadResult' = Failed(ReadError(outcome))
    /\ loadPc' = "done"
    /\ UNCHANGED <<loadArgs, heicDecoder, dispatched, decodeArgs, decodeReply,
                   attempts, onErrorCalls, currentCanvas>>
    /\ UNCHANGED <<bmpVars, encVars, saveVars>>
    /\ UNCHANGED fnVars
    /\ UNCHANGED appVars

\* _decodeWithLibheif resolves; currentCanvas = canvas
WasmDecodeSucceeds ==
    /\ loadPc = "reading"
    /\ \E dims \in WasmDims :
          /\ ValidWasmDims(dims)
          /\ attempts' = Append(attempts, Attempt("libheif", File.size, TRUE, Null, dims))
    /\ decodeResult' = Returned("libheif")
    /\ currentCanvas' = Canvas("libheif")
    /\ loadPc' = "preview"
    /\ UNCHANGED <<loadArgs, heicDecoder, dispatched, decodeArgs, decodeReply,
                   onErrorCalls, loadResult>>
    /\ UNCHANGED <<bmpVars, encVars, saveVars>>
    /\ UNCHANGED fnVars
    /\ UNCHANGED appVars

\* _decodeWithLibheif rejects and the fallback does not apply:
\* if (onError) onError(err); throw err
WasmDecodeFails ==
    /\ loadPc = "reading"
    /\ ~FallbackApplies(File)
    /\ \E failure \in WasmFailures :
          /\ attempts' = Append(attempts,
                                Attempt("libheif", File.size, FALSE, WasmError(failure),
                                        failure.dims))
          /\ onErrorCalls' = Append(onErrorCalls, WasmError(failure))
          /\ decodeResult' = Threw(WasmError(failure))
          /\ loadResult' = Failed(WasmError(failure))
    /\ loadPc' = "done"
    /\ UNCHANGED <<loadArgs, heicDecoder, dispatched, decodeArgs, decodeReply,
                   currentCanvas>>
    /\ UNCHANGED <<bmpVars, encVars, saveVars>>
    /\ UNCHANGED fnVars
    /\ UNCHANGED appVars

\* _decodeWithLibheif rejects and the fallback applies: _decodeAvifNatively
\* starts with createImageBitmap when the function exists, otherwise with the
\* Image element
WasmDecodeFallsBack ==
    /\ loadPc = "reading"
    /\ FallbackApplies(File)
    /\ \E failure \in WasmFailures :
          attempts' = Append(attempts,
                             Attempt("libheif", File.size, FALSE, WasmError(failure),
                                     failure.dims))
    /\ \E hasCreateImageBitmap \in BOOLEAN :
          loadPc' = IF hasCreateImageBitmap THEN "bitmap" ELSE "imageElement"
    /\ UNCHANGED <<loadArgs, heicDecoder, dispatched, decodeArgs, decodeReply,
                   onErrorCalls, decodeResult, loadResult, currentCanvas>>
    /\ UNCHANGED <<bmpVars, encVars, saveVars>>
    /\ UNCHANGED fnVars
    /\ UNCHANGED appVars

\* createImageBitmap(file) resolves and the bitmap is drawn: return canvas
NativeBitmapSucceeds ==
    /\ loadPc = "bitmap"
    /\ \E dims \in ElementDims :
          /\ ValidDims(dims)
          /\ attempts' = Append(attempts,
                                Attempt("createImageBitmap", File.size, TRUE, Null, dims))
    /\ decodeResult' = Returned("createImageBitmap")
    /\ currentCanvas' = Canvas("createImageBitmap")
    /\ loadPc' = "preview"
    /\ UNCHANGED <<loadArgs, heicDecoder, dispatched, decodeArgs, decodeReply,
                   onErrorCalls, loadResult>>
    /\ UNCHANGED <<bmpVars, encVars, saveVars>>
    /\ UNCHANGED fnVars
    /\ UNCHANGED appVars

\* createImageBitmap rejects, or the bitmap has no width or height: the error
\* is swallowed, "Fall through to Image element decoding"
NativeBitmapFails ==
    /\ loadPc = "bitmap"
    /\ \/ attempts' = Append(attempts,
                             Attempt("createImageBitmap", File.size, FALSE,
                                     Err(<<"createImageBitmap failed">>), Null))
       \/ \E dims \in ElementDims :
             /\ ~ValidDims(dims)
             /\ attempts' = Append(attempts,
                                   Attempt("createImageBitmap", File.size, FALSE,
                                           Err(<<"Invalid image dimensions: ">>
                                               \o DimensionsText(dims)),
                                           dims))
    /\ loadPc' = "imageElement"
    /\ UNCHANGED <<loadArgs, heicDecoder, dispatched, decodeArgs, decodeReply,
                   onErrorCalls, decodeResult, loadResult, currentCanvas>>
    /\ UNCHANGED <<bmpVars, encVars, saveVars>>
    /\ UNCHANGED fnVars
    /\ UNCHANGED appVars

\* img.onload with valid dimensions: resolve(canvas)
NativeImageSucceeds ==
    /\ loadPc = "imageElement"
    /\ \E dims \in ElementDims :
          /\ ValidDims(dims)
          /\ attempts' = Append(attempts, Attempt("imageElement", File.size, TRUE, Null, dims))
    /\ decodeResult' = Returned("imageElement")
    /\ currentCanvas' = Canvas("imageElement")
    /\ loadPc' = "preview"
    /\ UNCHANGED <<loadArgs, heicDecoder, dispatched, decodeArgs, decodeReply,
                   onErrorCalls, loadResult>>
    /\ UNCHANGED <<bmpVars, encVars, saveVars>>
    /\ UNCHANGED fnVars
    /\ UNCHANGED appVars

\* the Image element rejects: if (onError) onError(nativeErr); throw nativeErr
NativeImageFails ==
    /\ loadPc = "imageElement"
    /\ \E failure \in ImageFailures :
          /\ attempts' = Append(attempts,
                                Attempt("imageElement", File.size, FALSE, NativeError(failure),
                                        failure.dims))
          /\ onErrorCalls' = Append(onErrorCalls, NativeError(failure))
          /\ decodeResult' = Threw(NativeError(failure))
          /\ loadResult' = Failed(NativeError(failure))
    /\ loadPc' = "done"
    /\ UNCHANGED <<loadArgs, heicDecoder, dispatched, decodeArgs, decodeReply,
                   currentCanvas>>
    /\ UNCHANGED <<bmpVars, encVars, saveVars>>
    /\ UNCHANGED fnVars
    /\ UNCHANGED appVars

\* handleWasmDecodedFile after decode: the preview image of the canvas loads
PreviewLoads ==
    /\ loadPc = "preview"
    /\ loadResult' = Loaded("WebAssembly")
    /\ loadPc' = "done"
    /\ UNCHANGED <<loadArgs, heicDecoder, dispatched, decodeArgs, decodeReply,
                   attempts, onErrorCalls, decodeResult, currentCanvas>>
    /\ UNCHANGED <<bmpVars, encVars, saveVars>>
    /\ UNCHANGED fnVars
    /\ UNCHANGED appVars

\* canvas.toDataURL throws (caught by handleFile, currentCanvas stays), or
\* img.onerror (currentCanvas = null)
PreviewFails ==
    /\ loadPc = "preview"
    /\ \/ /\ loadResult' = Failed(Err(<<"Failed to convert canvas to preview: ", "toDataURL">>))
          /\ UNCHANGED currentCanvas
       \/ /\ loadResult' = Failed(Err(<<"Failed to load preview image">>))
          /\ currentCanvas' = Null
    /\ loadPc' = "done"
    /\ UNCHANGED <<loadArgs, heicDecoder, dispatched, decodeArgs, decodeReply,
                   attempts, onErrorCalls, decodeResult>>
    /\ UNCHANGED <<bmpVars, encVars, saveVars>>
    /\ UNCHANGED fnVars
    /\ UNCHANGED appVars

-----------------------------------------------------------------------------
(* handleSharpDecodedFile and handleStandardImage (renderer) *)

\* file.arrayBuffer() rejects
SharpReadFails ==
    /\ loadPc = "sharpRead"
    /\ loadResult' = Failed(Err(<<"Failed to read TIFF data: ", "NotReadableError">>))
    /\ loadPc' = "done"
    /\ UNCHANGED <<loadArgs, heicDecoder, dispatched, decodeArgs, decodeReply,
                   attempts, onErrorCalls, decodeResult, currentCanvas>>
    /\ UNCHANGED <<bmpVars, encVars, saveVars>>
    /\ UNCHANGED fnVars
    /\ UNCHANGED appVars

\* file.arrayBuffer() resolves: invoke('decode-image', { filePath: null, arrayBuffer })
SharpReadDone ==
    /\ loadPc = "sharpRead"
    /\ decodeArgs' = [filePath |-> Null, arrayBuffer |-> [bytes |-> File.size],
                      dataUrl |-> Undef]
    /\ loadPc' = "ipc"
    /\ UNCHANGED <<loadArgs, heicDecoder, dispatched, decodeReply, attempts,
                   onErrorCalls, decodeResult, loadResult, currentCanvas>>
    /\ UNCHANGED <<bmpVars, encVars, saveVars>>
    /\ UNCHANGED fnVars
    /\ UNCHANGED appVars

\* the invoke rejected: throw new Error(`${formatName} decode failed: ${message}`)
SharpDecodeFailed ==
    /\ loadPc = "ipcReplied"
    /\ dispatched = "TIFF"
    /\ decodeReply.state = "threw"
    /\ loadResult' = Failed(Err(<<"TIFF decode failed: ">> \o decodeReply.error.message))
    /\ loadPc' = "done"
    /\ UNCHANGED <<loadArgs, heicDecoder, dispatched, decodeArgs, decodeReply,
                   attempts, onErrorCalls, decodeResult, currentCanvas>>
    /\ UNCHANGED <<bmpVars, encVars, saveVars>>
    /\ UNCHANGED fnVars
    /\ UNCHANGED appVars

\* the invoke resolved: the preview image of result.dataUrl loads
\* (currentCanvas = null) or fails
SharpPreview ==
    /\ loadPc = "ipcReplied"
    /\ dispatched = "TIFF"
    /\ decodeReply.state = "returned"
    /\ \/ /\ loadResult' = Loaded("Sharp")
          /\ currentCanvas' = Null
       \/ /\ loadResult' = Failed(Err(<<"Failed to load TIFF preview image">>))
          /\ UNCHANGED currentCanvas
    /\ loadPc' = "done"
    /\ UNCHANGED <<loadArgs, heicDecoder, dispatched, decodeArgs, decodeReply,
                   attempts, onErrorCalls, decodeResult>>
    /\ UNCHANGED <<bmpVars, encVars, saveVars>>
    /\ UNCHANGED fnVars
    /\ UNCHANGED appVars

\* reader.onerror, reader.onabort or an empty result
StandardReadFails ==
    /\ loadPc = "standardRead"
    /\ \E message \in {"File not found", "File is not readable", "File reading was aborted",
                       "FileReader returned empty data"} :
          loadResult' = Failed(Err(<<message>>))
    /\ loadPc' = "done"
    /\ UNCHANGED <<loadArgs, heicDecoder, dispatched, decodeArgs, decodeReply,
                   attempts, onErrorCalls, decodeResult, currentCanvas>>
    /\ UNCHANGED <<bmpVars, encVars, saveVars>>
    /\ UNCHANGED fnVars
    /\ UNCHANGED appVars

\* reader.onload: img.src = e.target.result; the Image element decodes the
\* whole file
StandardImageDecodes ==
    /\ loadPc = "standardRead"
    /\ \/ /\ \E dims \in ElementDims :
                /\ ValidStandardDims(dims)
                /\ attempts' = Append(attempts,
                                      Attempt("nativeImage", File.size, TRUE, Null, dims))
          /\ loadResult' = Loaded("Native")
          /\ currentCanvas' = Null
       \/ /\ \E dims \in ElementDims :
                /\ ~ValidStandardDims(dims)
                /\ attempts' = Append(attempts,
                                      Attempt("nativeImage", File.size, FALSE,
                                              Err(<<"Image has invalid dimensions (0x0)">>),
                                              dims))
                /\ loadResult' = Failed(Err(<<"Image has invalid dimensions (0x0)">>))
          /\ UNCHANGED currentCanvas
       \/ /\ \E message \in {"Failed to load image data. The file may be corrupted or unsupported.",
                             "Image loading was aborted"} :
                /\ attempts' = Append(attempts,
                                      Attempt("nativeImage", File.size, FALSE,
                                              Err(<<message>>), Null))
                /\ loadResult' = Failed(Err(<<message>>))
          /\ UNCHANGED currentCanvas
    /\ loadPc' = "done"
    /\ UNCHANGED <<loadArgs, heicDecoder, dispatched, decodeArgs, decodeReply,
                   onErrorCalls, decodeResult>>
    /\ UNCHANGED <<bmpVars, encVars, saveVars>>
    /\ UNCHANGED fnVars
    /\ UNCHANGED appVars

-----------------------------------------------------------------------------
(* ipcMain.handle('decode-image'), main.js:583-618 *)

\* lines 588-600: the input buffer of the call, or the error thrown; whether
\* fs.readFileSync succeeds is the file system's
DecodeInput(args, readOk) ==
    IF ~Falsy(args.filePath)
    THEN IF readOk
         THEN [threw |-> FALSE, length |-> args.filePath.bytes]
         ELSE [threw |-> TRUE, error |-> Err(<<"Failed to read file: ", "ENOENT">>)]
    ELSE IF ~Falsy(args.arrayBuffer)
    THEN [threw |-> FALSE, length |-> args.arrayBuffer.bytes]
    ELSE IF ~Falsy(args.dataUrl)
    THEN IF parseDataUrl(args.dataUrl).threw
         THEN [threw |-> TRUE, error |-> Err(<<parseDataUrl(args.dataUrl).error>>)]
         ELSE [threw |-> FALSE, length |-> parseDataUrl(args.dataUrl).length]
    ELSE [threw |-> TRUE, error |-> Err(<<"No image data provided for decoding">>)]

\* the handler throws before sharp is given any bytes
DecodeImageRejects ==
    /\ loadPc = "ipc"
    /\ \/ /\ ~sharp
          /\ decodeReply' = Threw(Err(<<"Decoder requires sharp">>))
       \/ /\ sharp
          /\ \E readOk \in BOOLEAN :
                /\ DecodeInput(decodeArgs, readOk).threw
                /\ decodeReply' = Threw(DecodeInput(decodeArgs, readOk).error)
    /\ loadPc' = "ipcReplied"
    /\ UNCHANGED <<loadArgs, heicDecoder, dispatched, decodeArgs, attempts,
                   onErrorCalls, decodeResult, loadResult, currentCanvas>>
    /\ UNCHANGED <<bmpVars, encVars, saveVars>>
    /\ UNCHANGED fnVars
    /\ UNCHANGED appVars

\* await sharp(inputBuffer, { failOnError: false }).png().toBuffer(...)
DecodeImageDecodes ==
    /\ loadPc = "ipc"
    /\ sharp
    /\ \E readOk \in BOOLEAN :
          LET input == DecodeInput(decodeArgs, readOk)
          IN  /\ ~input.threw
              /\ \/ \E dims \in SharpDims :
                       /\ ValidDims(dims)
                       /\ attempts' = Append(attempts,
                                             Attempt("sharp", input.length, TRUE, Null, dims))
                       /\ decodeReply' = Returned([success |-> TRUE, dataUrl |-> PngHead,
                                                   width |-> dims.width,
                                                   height |-> dims.height])
                 \/ \E dims \in SharpDims :
                       /\ ~ValidDims(dims)
                       /\ attempts' = Append(attempts,
                                             Attempt("sharp", input.length, FALSE,
                                                     Err(<<"Decoded image has invalid dimensions">>),
                                                     dims))
                       /\ decodeReply' = Threw(Err(<<"Decoded image has invalid dimensions">>))
                 \/ /\ attempts' = Append(attempts,
                                          Attempt("sharp", input.length, FALSE,
                                                  Err(<<"Input buffer contains unsupported image format">>),
                                                  Null))
                    /\ decodeReply' = Threw(Err(<<"Input buffer contains unsupported image format">>))
    /\ loadPc' = "ipcReplied"
    /\ UNCHANGED <<loadArgs, heicDecoder, dispatched, decodeArgs,
                   onErrorCalls, decodeResult, loadResult, currentCanvas>>
    /\ UNCHANGED <<bmpVars, encVars, saveVars>>
    /\ UNCHANGED fnVars
    /\ UNCHANGED appVars

-----------------------------------------------------------------------------
(* Inputs of the load specification *)

LoadNames ==
    {Undef, Str(<<>>), Str(<<"a">> \o Dot(heic)), Str(<<"a", ".", "H", "E", "I", "C">>),
     Str(<<"a">> \o Dot(avif)), Str(<<"a">> \o Dot(tif)), Str(<<"a">> \o Dot(png)),
     Str(<<"a", ".", "t", "x", "t">>), Str(<<"a">>)}

LoadTypes ==
    {Str(<<>>), Str(MimeType(heic)), Str(MimeType(avif)), Str(MimeType(tiff)),
     Str(MimeType(png)), Str(<<"I", "M", "A", "G", "E", "/", "P", "N", "G">>),
     Str(<<"t", "e", "x", "t", "/", "p", "l", "a", "i", "n">>)}

LoadSizes == {0, 2048, ValidateMaxSize, ValidateMaxSize + 1}

LoadPaths == {Undef, Str(<<"/", "t">>)}

LoadFiles == [name : LoadNames, type : LoadTypes, size : LoadSizes, path : LoadPaths]

\* decode-image calls that do not come from handleSharpDecodedFile
DirectDecodeArgs ==
    {[filePath |-> Null, arrayBuffer |-> Null, dataUrl |-> Undef],
     [filePath |-> Null, arrayBuffer |-> Null, dataUrl |-> Str(<<"x">>)]}
    \cup {[filePath |-> Null, arrayBuffer |-> Null,
           dataUrl |-> DataUrl(PngHead, PayloadOfLength(n).chars, PayloadOfLength(n).pad,
                               SmallImage)] : n \in LoadSizes \ {0}}
    \cup {[filePath |-> [path |-> Str(<<"/", "t">>), bytes |-> n], arrayBuffer |-> Null,
           dataUrl |-> Undef] : n \in LoadSizes}
    \cup {[filePath |-> Null, arrayBuffer |-> [bytes |-> n], dataUrl |-> Undef] :
            n \in LoadSizes}

LoadInit ==
    /\ \/ /\ loadPc = "start"
          /\ loadArgs \in [file : LoadFiles \cup {Null}, filePath : {Null, Str(<<"/", "u">>)}]
          /\ dispatched = "none"
          /\ decodeArgs = [filePath |-> Null, arrayBuffer |-> Null, dataUrl |-> Undef]
       \/ /\ loadPc = "ipc"
          /\ loadArgs = [file |-> Null, filePath |-> Null]
          /\ dispatched = "direct"
          /\ decodeArgs \in DirectDecodeArgs
    /\ heicDecoder \in BOOLEAN
    /\ decodeReply = Pending
    /\ attempts = <<>>
    /\ onErrorCalls = <<>>
    /\ decodeResult = Pending
    /\ loadResult = Pending
    /\ currentCanvas = Null
    /\ sharp \in BOOLEAN
    /\ BmpIdle
    /\ EncIdle
    /\ SaveIdle
    /\ FnIdle
    /\ AppIdle

LoadNext ==
    \/ HandleFileNoFile
    \/ HandleFileUnsupported
    \/ HandleFileWasmInvalid
    \/ HandleFileWasmReads
    \/ HandleFileSharpWithPath
    \/ HandleFileSharpReads
    \/ HandleFileStandard
    \/ WasmReadFails
    \/ WasmDecodeSucceeds
    \/ WasmDecodeFails
    \/ WasmDecodeFallsBack
    \/ NativeBitmapSucceeds
    \/ NativeBitmapFails
    \/ NativeImageSucceeds
    \/ NativeImageFails
    \/ PreviewLoads
    \/ PreviewFails
    \/ SharpReadFails
    \/ SharpReadDone
    \/ SharpDecodeFailed
    \/ SharpPreview
    \/ StandardReadFails
    \/ StandardImageDecodes
    \/ DecodeImageRejects
    \/ DecodeImageDecodes

SpecLoad == LoadInit /\ [][LoadNext]_vars

-----------------------------------------------------------------------------
(* Calls of the helper functions of main.js: normalizeFormat,              *)
(* normalizeQuality, buildSaveFilters and parseDataUrl, each applied to    *)
(* one argument.                                                           *)

FnReturned(value) == [state |-> "returned", value |-> value]

FnThrew(message) == [state |-> "threw", error |-> message]

ToUpperChar(c) ==
    IF \E i \in 1..26 : LowerCase[i] = c
    THEN UpperCase[CHOOSE i \in 1..26 : LowerCase[i] = c]
    ELSE c

RECURSIVE CaseVariants(_)
\* every spelling of s in upper and lower case letters
CaseVariants(s) ==
    IF s = <<>> THEN {<<>>}
    ELSE {<<c>> \o rest : c \in {s[1], ToUpperChar(s[1])},
                          rest \in CaseVariants(Tail(s))}

FormatArgs ==
    {Null, Undef, Str(<<>>), Num(0), Num(5),
     Str(<<"x", "y", "z">>), Str(<<"t", "x", "t">>), Str(<<"c", "o", "n", "s", "t", "r", "u", "c", "t", "o", "r">>), Str(<<"_", "_", "p", "r", "o", "t", "o", "_", "_">>), Str(<<"j", "p", "e">>)}
    \cup {Str(v) : v \in UNION {CaseVariants(k) :
                      k \in {jpeg, jpg, png, webp, avif, heic, heif, gif, bmp, tiff, tif}}}

QualityStrings ==
    {Str(<<"8", "5", ".", "7">>),
     Str(<<" ", "4", "2">>),
     Str(<<"1", "2", "a", "b", "c">>),
     Str(<<"-", "3">>),
     Str(<<"+", "7">>),
     Str(<<>>),
     Str(<<"1", "e", "3">>),
     Str(<<"1", "0", "0">>),
     Str(<<"1", "0", "1">>),
     Str(<<"a", "b", "c">>),
     Str(<<"7", "5">>)}

QualityFnArgs ==
    {Undef, Null, NaN, Num(150), Num(0), Num(-5), Num(85), Num(1), Num(100), Num(101),
     Num(1000000)} \cup QualityStrings

DataUrlStrings ==
    {Str(<<"d", "a", "t", "a", ":", "a", "/", "b", ";", "b", "a", "s", "e", "6", "4", ",", "Q", "U", "J", "D">>),
     Str(<<"d", "a", "t", "a", ":", "a", "/", "b", ";", "b", "a", "s", "e", "6", "4", ",", "Q", "U", "I", "=">>),
     Str(<<"d", "a", "t", "a", ":", "a", "/", "b", ";", "b", "a", "s", "e", "6", "4", ",", "Q", "Q", "=", "=">>),
     Str(<<"h", "t", "t", "p", ":", "a", "/", "b", ";", "b", "a", "s", "e", "6", "4", ",", "Q", "U", "J", "D">>),
     Str(<<"D", "A", "T", "A", ":", "a", "/", "b", ";", "b", "a", "s", "e", "6", "4", ",", "Q", "U", "J", "D">>),
     Str(<<"x", "d", "a", "t", "a", ":", "a", "/", "b", ";", "b", "a", "s", "e", "6", "4", ",", "Q", "U", "J", "D">>),
     Str(<<"d", "a", "t", "a", ":", ";", "b", "a", "s", "e", "6", "4", ",", "Q", "U", "J", "D">>),
     Str(<<"d", "a", "t", "a", ":", "a", "/", "b", ",", "Q", "U", "J", "D">>),
     Str(<<"d", "a", "t", "a", ":", "a", "/", "b", ";", "b", "a", "s", "e", "3", "2", ",", "Q", "U", "J", "D">>),
     Str(<<"d", "a", "t", "a", ":", "a", "/", "b", ";", "Q", "U", "J", "D">>),
     Str(<<"d", "a", "t", "a", ":", "a", "/", "b", ";", "b", "a", "s", "e", "6", "4", ",">>),
     Str(<<"d", "a", "t", "a", ":", "a", "/", "b", ";", "b", "a", "s", "e", "6", "4", ",", "Q", "U", "@", "D">>),
     Str(<<"d", "a", "t", "a", ":", "a", "/", "b", ";", "b", "a", "s", "e", "6", "4", ",", "Q", "U", "J">>),
     Str(<<"d", "a", "t", "a", ":", "a", "/", "b", ";", "b", "a", "s", "e", "6", "4", ",", "Q", "=", "J", "D">>),
     Str(<<"d", "a", "t", "a", ":", "a", "/", "b", ";", "b", "a", "s", "e", "6", "4", ",", "=", "=", "=", "=">>),
     Str(<<"d", "a", "t", "a", ":", "a", "/", "b", ";", "b", "a", "s", "e", "6", "4", ",", "!", "!", "!", "!">>),
     Str(<<"d", "a", "t", "a", ":", "a", "/", "b", ";", "c", "=", "d", ";", "b", "a", "s", "e", "6", "4", ",", "Q", "U", "J", "D">>),
     Str(<<>>),
     Str(<<"x">>)}

FnInit ==
    /\ fnPc = "call"
    /\ \/ fnName = "normalizeFormat" /\ fnArg \in FormatArgs
       \/ fnName = "normalizeQuality" /\ fnArg \in QualityFnArgs
       \/ fnName = "buildSaveFilters" /\ fnArg \in FormatArgs
       \/ fnName = "parseDataUrl" /\ fnArg \in DataUrlStrings
    /\ fnResult = Pending
    /\ sharp = FALSE
    /\ BmpIdle
    /\ EncIdle
    /\ SaveIdle
    /\ AppIdle
    /\ LoadIdle

OtherVarsUnchanged == UNCHANGED <<bmpVars, encVars, saveVars, loadVars, appVars>>

NormalizeFormatCall ==
    /\ fnPc = "call"
    /\ fnName = "normalizeFormat"
    /\ fnResult' = FnReturned(normalizeFormat(fnArg))
    /\ fnPc' = "done"
    /\ UNCHANGED <<fnName, fnArg>>
    /\ OtherVarsUnchanged

NormalizeQualityCall ==
    /\ fnPc = "call"
    /\ fnName = "normalizeQuality"
    /\ fnResult' = FnReturned(normalizeQuality(fnArg))
    /\ fnPc' = "done"
    /\ UNCHANGED <<fnName, fnArg>>
    /\ OtherVarsUnchanged

BuildSaveFiltersCall ==
    /\ fnPc = "call"
    /\ fnName = "buildSaveFilters"
    /\ fnResult' = FnReturned(buildSaveFilters(fnArg))
    /\ fnPc' = "done"
    /\ UNCHANGED <<fnName, fnArg>>
    /\ OtherVarsUnchanged

ParseDataUrlCall ==
    /\ fnPc = "call"
    /\ fnName = "parseDataUrl"
    /\ fnResult' = IF parseDataUrl(fnArg).threw
                   THEN FnThrew(parseDataUrl(fnArg).error)
                   ELSE FnReturned([length |-> parseDataUrl(fnArg).length])
    /\ fnPc' = "done"
    /\ UNCHANGED <<fnName, fnArg>>
    /\ OtherVarsUnchanged

FnNext ==
    \/ NormalizeFormatCall
    \/ NormalizeQualityCall
    \/ BuildSaveFiltersCall
    \/ ParseDataUrlCall

SpecFn == FnInit /\ [][FnNext]_vars

-----------------------------------------------------------------------------
(* Readers used by the properties: the little-endian fields of a byte      *)
(* buffer, read back independently of the writers above.                   *)

ReadU16LE(buf, offset) == buf[offset + 1] + 256 * buf[offset + 2]

ReadU32LE(buf, offset) ==
    buf[offset + 1] + 256 * buf[offset + 2] + 65536 * buf[offset + 3]
        + 16777216 * buf[offset + 4]

CeilDiv(a, b) == IF a % b = 0 THEN a \div b ELSE (a \div b) + 1

\* rowStride as the specification words it: ceil(3w/4)*4
CeilRowStride(w) == CeilDiv(3 * w, 4) * 4

-----------------------------------------------------------------------------
(* C1: for every w, h >= 1 and every RGBA buffer of length w*h*4,          *)
(* encodeBmp returns exactly 54 + rowStride*h bytes with                   *)
(* rowStride = ceil(3w/4)*4 (equal to the code's floor((3w+3)/4)*4, a      *)
(* multiple of 4 that adds 0..3 padding bytes per row); bytes 0-1 are      *)
(* 'BM'; the little-endian fields are: offset 2 = total length, 6 = 0,     *)
(* 10 = 54, 14 = 40, 18 = w, 22 = h, 26 (16 bit) = 1, 28 (16 bit) = 24,    *)
(* 30 = 0, 34 = rowStride*h, 38 and 42 = 2835, 46 and 50 = 0; a 100x50     *)
(* input gives 15054 bytes with 15054 stored at offset 2.                  *)
C1_BmpHeaderExact ==
    bmpPc = "done" =>
        LET rs == CeilRowStride(width)
        IN  /\ Len(pixelData) = width * height * 4
            /\ RowStride(width) = rs
            /\ rs % 4 = 0
            /\ rs - 3 * width \in 0..3
            /\ Len(buffer) = 54 + rs * height
            /\ buffer[1] = 66
            /\ buffer[2] = 77
            /\ ReadU32LE(buffer, 2) = Len(buffer)
            /\ ReadU32LE(buffer, 6) = 0
            /\ ReadU32LE(buffer, 10) = 54
            /\ ReadU32LE(buffer, 14) = 40
            /\ ReadU32LE(buffer, 18) = width
            /\ ReadU32LE(buffer, 22) = height
            /\ buffer[26] < 128
            /\ ReadU16LE(buffer, 26) = 1
            /\ ReadU16LE(buffer, 28) = 24
            /\ ReadU32LE(buffer, 30) = 0
            /\ ReadU32LE(buffer, 34) = rs * height
            /\ ReadU32LE(buffer, 38) = 2835
            /\ ReadU32LE(buffer, 42) = 2835
            /\ ReadU32LE(buffer, 46) = 0
            /\ ReadU32LE(buffer, 50) = 0
            /\ (width = 100 /\ height = 50) =>
                  (Len(buffer) = 15054 /\ ReadU32LE(buffer, 2) = 15054)

\* the 100x50 input has been encoded
C1_Witness ==
    /\ bmpPc = "done"
    /\ width = 100
    /\ height = 50
    /\ Len(pixelData) = 20000
    /\ Len(buffer) = 15054

\* the alpha bytes of an RGBA buffer, and the bytes of its colour channels
AlphaBytes(data) == {data[4 * k] : k \in 1..(Len(data) \div 4)}

ColourBytes(data) == {data[i] : i \in {j \in 1..Len(data) : j % 4 # 0}}

(* C2: for every stored row y and column x, the three bytes at offset      *)
(* 54 + y*rowStride + 3x are the (B, G, R) bytes of the source pixel at    *)
(* row h-1-y, column x (bottom-up rows); every byte from                   *)
(* 54 + y*rowStride + 3w to the end of stored row y is 0; no source alpha  *)
(* byte is written: every byte of the pixel area is one of these, and when *)
(* the alpha values of the input occur in no colour channel (and are not   *)
(* the padding value 0) they occur nowhere in the pixel area.              *)
C2_BmpPixelsBottomUpBgr ==
    bmpPc = "done" =>
        LET rs == CeilRowStride(width)
        IN  /\ \A y \in 0..(height - 1) :
                  /\ \A x \in 0..(width - 1) :
                        LET o == 54 + y * rs + 3 * x
                            p == ((height - 1 - y) * width + x) * 4
                        IN  /\ buffer[o + 1] = pixelData[p + 3]
                            /\ buffer[o + 2] = pixelData[p + 2]
                            /\ buffer[o + 3] = pixelData[p + 1]
                  /\ \A o \in (54 + y * rs + 3 * width)..(54 + (y + 1) * rs - 1) :
                        buffer[o + 1] = 0
            /\ LET alphas == AlphaBytes(pixelData)
                   colours == ColourBytes(pixelData)
                   written == {buffer[o + 1] : o \in 54..(Len(buffer) - 1)}
               IN  (alphas \cap (colours \cup {0}) = {}) =>
                       (written \cap alphas = {})

\* an encoded image with several rows that differ, row padding, and a pixel
\* whose three colour bytes and alpha byte are pairwise different
C2_Witness ==
    /\ bmpPc = "done"
    /\ height >= 2
    /\ CeilRowStride(width) > 3 * width
    /\ pixelData[1] # pixelData[(height - 1) * width * 4 + 1]
    /\ Cardinality({pixelData[1], pixelData[2], pixelData[3], pixelData[4]}) = 4
    /\ buffer[55] = pixelData[(height - 1) * width * 4 + 3]
    /\ AlphaBytes(pixelData) \cap (ColourBytes(pixelData) \cup {0}) = {}

-----------------------------------------------------------------------------
(* C3: whenever encodeOutputBuffer takes the bmp branch, the raw pixel     *)
(* buffer it hands to encodeBmp has exactly width*height*4 bytes for the   *)
(* width and height it passes along, for every decodable input image       *)
(* (also one without alpha channel), so that no read of encodeBmp is past  *)
(* the end of its input.                                                   *)
C3_RawBufferIsRgba ==
    (encPc = "done" /\ bmpPc = "done") =>
        /\ Len(pixelData) = width * height * 4
        /\ \A y \in 0..(height - 1), x \in 0..(width - 1) :
              (((height - 1 - y) * width + x) * 4) + 2 < Len(pixelData)

RegistryKeys == {jpeg, png, webp, avif, heic, gif, bmp, tiff}

\* the target format is absent: null, undefined or empty
AbsentTarget(target) == target \in {Null, Undef, Str(<<>>)}

\* the calls of a pipeline that select an output encoder
EncoderCalls(calls) == {i \in 1..Len(calls) : calls[i].m # "flatten"}

\* the encoder configuration the registry key stands for
EncoderOf(key) ==
    IF key = bmp THEN "raw" ELSE IF key = heic THEN "heif-hevc"
    ELSE IF key = jpeg THEN "jpeg" ELSE IF key = png THEN "png"
    ELSE IF key = webp THEN "webp" ELSE IF key = avif THEN "avif"
    ELSE IF key = gif THEN "gif" ELSE "tiff"

(* C4: for every input, target token and quality, and whether or not the   *)
(* codec library loaded, encodeOutputBuffer fails with the missing-format  *)
(* error when the target is absent and with the unsupported-format error   *)
(* when the normalised target is not one of the eight registry keys, no    *)
(* output being produced in both cases; for each of the eight keys exactly *)
(* one encoder configuration is selected.                                  *)
C4_FormatErrors ==
    encPc = "done" =>
        LET key == normalizeFormat(targetFormat)
        IN  /\ AbsentTarget(targetFormat) =>
                  /\ encResult.threw
                  /\ encResult.error = "Missing output format"
                  /\ encResult.out.kind = "none"
            /\ (~AbsentTarget(targetFormat) /\ key.v \notin RegistryKeys) =>
                  /\ encResult.threw
                  /\ encResult.error = "Unsupported output format"
                  /\ encResult.out.kind = "none"
            /\ (~AbsentTarget(targetFormat) /\ key.v \in RegistryKeys /\ ~encResult.threw) =>
                  /\ Cardinality(EncoderCalls(encResult.calls)) = 1
                  /\ \A i \in EncoderCalls(encResult.calls) :
                        encResult.calls[i].m = EncoderOf(key.v)

-----------------------------------------------------------------------------
(* save-image: the size bound *)

Contains(seq, x) == \E i \in DOMAIN seq : seq[i] = x

\* the data URL argument is a string that parses to a buffer
SaveInputParses ==
    /\ ~Falsy(saveArgs.dataUrl)
    /\ saveArgs.dataUrl.t = "string"
    /\ ~parseDataUrl(saveArgs.dataUrl).threw

SaveInputLength == parseDataUrl(saveArgs.dataUrl).length

SaveInputOversize == SaveInputParses /\ SaveInputLength > 104857600

SizeFailure == SaveFailure("Image too large", Undef)

\* C5 as stated: every save-image call whose input decodes to more than
\* 104857600 bytes ends in the size-exceeded failure, the size check is the
\* first work done for the call (nothing is recorded before it), the encoder
\* is never invoked and no file is written; an input of exactly 104857600
\* bytes never ends in the size-exceeded failure.
C5_SizeCheckFirst ==
    /\ SaveInputOversize /\ savePc = "done"
          => /\ saveResult = SizeFailure
             /\ saveTrace = <<"sizeCheck">>
             /\ files = {}
    /\ SaveInputOversize => ~Contains(saveTrace, "encodeOutputBuffer")
    /\ SaveInputParses /\ SaveInputLength = 104857600 => saveResult # SizeFailure

\* C5 amended: once the save dialog has returned a path and the data URL has
\* been parsed into the input buffer, an input buffer of more than 104857600
\* bytes is rejected with the size-exceeded failure, and the dialog and the
\* base64 parse are the only work before that check; the encoder is never
\* invoked and no file is written for such an input.  When the call ends
\* before the parse (arguments rejected or dialog cancelled) the result is
\* that failure or the cancellation, not the size-exceeded failure.  An input
\* buffer of at most 104857600 bytes (exactly 104857600 included) passes the
\* check: the call goes on to the encoder or to the write.
C5_SizeCheckAfterDialogAndParse ==
    /\ SaveInputOversize /\ Contains(saveTrace, "parseDataUrl")
          => /\ savePc = "done"
             /\ saveResult = SizeFailure
             /\ saveTrace = <<"showSaveDialog", "parseDataUrl", "sizeCheck">>
    /\ SaveInputOversize /\ savePc = "done" /\ ~Contains(saveTrace, "parseDataUrl")
          => \/ saveResult = SaveCancelled /\ saveTrace = <<"showSaveDialog">>
             \/ /\ BeforeDialog(saveArgs).threw
                /\ saveResult = SaveFailure(BeforeDialog(saveArgs).error,
                                            BeforeDialog(saveArgs).code)
                /\ saveTrace = <<>>
    /\ SaveInputOversize
          => /\ ~Contains(saveTrace, "encodeOutputBuffer")
             /\ ~Contains(saveTrace, "writeFileSync")
             /\ files = {}
             /\ lastSavedFilePath = Null
    /\ SaveInputParses /\ SaveInputLength <= 104857600 /\ Contains(saveTrace, "sizeCheck")
          => /\ saveResult # SizeFailure
             /\ \/ Contains(saveTrace, "encodeOutputBuffer")
                \/ Contains(saveTrace, "writeFileSync")

C5_Witness ==
    /\ savePc = "done"
    /\ SaveInputParses
    /\ SaveInputLength = 104857601
    /\ saveResult = SizeFailure
    /\ saveTrace = <<"showSaveDialog", "parseDataUrl", "sizeCheck">>

-----------------------------------------------------------------------------
(* Loading: what the decode attempts of a load show *)

AttemptsBy(decoders) == {i \in DOMAIN attempts : attempts[i].decoder \in decoders}

NativeDecoders == {"createImageBitmap", "imageElement"}

WasmFailed == \E i \in AttemptsBy({"libheif"}) : ~attempts[i].ok

NativeAttempted == AttemptsBy(NativeDecoders) # {}

NativeFailed ==
    \E i \in AttemptsBy({"imageElement"}) : ~attempts[i].ok

\* C6: on every decode path (libheif, createImageBitmap and Image element
\* of the WASM path, sharp behind decode-image for each of its input
\* variants, the Image element of the native raster path) no decoder is
\* handed an input of more than 104857600 bytes.
C6_NoOversizeInputDecoded ==
    \A i \in DOMAIN attempts : attempts[i].bytes <= 104857600

\* C7: for a source dispatched as AVIF whose libheif decode failed, decode
\* does not end (return, throw or call onError) before a native decode has
\* been attempted; it throws or calls onError only after the Image element,
\* the last native decoder, failed; and when a native decode succeeded,
\* decode returns the canvas of that native decoder, onError has not been
\* called and nothing is thrown.
C7_AvifFallbackAttempted ==
    dispatched = "AVIF" /\ WasmFailed
       => /\ decodeResult.state # "pending" \/ onErrorCalls # <<>> => NativeAttempted
          /\ decodeResult.state = "threw" \/ onErrorCalls # <<>> => NativeFailed
          /\ \A i \in AttemptsBy(NativeDecoders) :
                attempts[i].ok => /\ decodeResult = Returned(attempts[i].decoder)
                                  /\ onErrorCalls = <<>>
                                  /\ i = Len(attempts)

C7_Witness ==
    /\ dispatched = "AVIF"
    /\ WasmFailed
    /\ Len(attempts) = 3
    /\ attempts[2].decoder = "createImageBitmap" /\ ~attempts[2].ok
    /\ attempts[3].decoder = "imageElement" /\ attempts[3].ok
    /\ decodeResult = Returned("imageElement")
    /\ onErrorCalls = <<>>
    /\ currentCanvas = Canvas("imageElement")

\* the message of error e contains the message of cause c
References(e, c) ==
    \E k \in 0..(Len(e.message) - Len(c.message)) :
       SubSeq(e.message, k + 1, k + Len(c.message)) = c.message

\* C8: when the libheif decode and the native fallback decode both failed,
\* the error decode throws is the error passed to onError, and it references
\* the cause of the libheif failure and the cause of the native failure.
C8_BothCausesReported ==
    WasmFailed /\ NativeFailed /\ decodeResult.state = "threw"
       => /\ onErrorCalls = <<decodeResult.error>>
          /\ \A i \in AttemptsBy({"libheif", "imageElement"}) :
                References(decodeResult.error, attempts[i].error)

\* C9: a native decode is attempted only for a source dispatched as AVIF;
\* for a source dispatched as HEIC the failed libheif decode is the only
\* decode attempt and decode throws its error; after a file-read failure
\* no decode is attempted at all.
C9_FallbackOnlyForAvif ==
    /\ NativeAttempted => dispatched = "AVIF"
    /\ dispatched = "HEIC" => Len(attempts) <= 1
    /\ dispatched = "HEIC" /\ WasmFailed
          => /\ loadPc = "done"
             /\ decodeResult = Threw(attempts[1].error)
    /\ decodeResult.state = "threw" /\ AttemptsBy({"libheif"}) = {} => attempts = <<>>

-----------------------------------------------------------------------------
(* The decision order of the load dispatcher as the specification states   *)
(* it, on the lower-cased declared type and the lower-cased extension      *)
(* (the characters after the last dot of the name).                        *)

DeclaredType(file) ==
    IF file.type.t \in {"null", "undefined"} THEN <<>> ELSE ToLowerCase(file.type.v)

RECURSIVE AfterLastDot(_)
AfterLastDot(name) ==
    IF name = <<>> THEN <<>>
    ELSE IF name[Len(name)] = "." THEN <<>>
    ELSE Append(AfterLastDot(SubSeq(name, 1, Len(name) - 1)), name[Len(name)])

NameExtension(file) ==
    IF file.name.t \in {"null", "undefined"} THEN <<>>
    ELSE IF \A i \in DOMAIN file.name.v : file.name.v[i] # "." THEN <<>>
    ELSE ToLowerCase(AfterLastDot(file.name.v))

Strategy(file) ==
    LET type == DeclaredType(file)
        ext == NameExtension(file)
    IN  IF type \in {MimeType(heic), MimeType(heif)} \/ ext \in {heic, heif} THEN "heic"
        ELSE IF type = MimeType(avif) \/ ext = avif THEN "avif"
        ELSE IF type = MimeType(tiff) \/ ext \in {tif, tiff} THEN "tiff"
        ELSE IF \/ StartsWith(type, ImagePrefix)
                \/ ext \in {jpg, jpeg, png, webp, gif, bmp, tif, tiff}
        THEN "nativeRaster"
        ELSE "unsupported"

StrategyOfHandler(handler) ==
    IF handler = "HEIC" THEN "heic"
    ELSE IF handler = "AVIF" THEN "avif"
    ELSE IF handler = "TIFF" THEN "tiff"
    ELSE IF handler = "standard" THEN "nativeRaster"
    ELSE "unsupported"

\* C10: for every file (name or none, declared type or none) handleFile
\* chooses the handler of the strategy the decision order gives: heic, else
\* avif, else tiff, else native raster, else unsupported, each test on the
\* declared type or the extension, case-insensitively.
C10_DispatchFollowsDecisionOrder ==
    dispatched \notin {"none", "direct"}
       => StrategyOfHandler(dispatched) = Strategy(File)

-----------------------------------------------------------------------------
(* normalizeFormat and normalizeQuality *)

CanonicalKeys == {jpeg, png, webp, avif, heic, gif, bmp, tiff}

AliasOf == [a \in {jpg, heif, tif} |-> IF a = jpg THEN jpeg ELSE IF a = heif THEN heic ELSE tiff]

FnDone(name) == fnPc = "done" /\ fnName = name

\* C11: normalizeFormat maps every upper/lower-case spelling of the aliases
\* jpg, heif, tif to jpeg, heic, tiff, every spelling of a canonical key to
\* the lower-case key, and "", null and undefined to null; applying it to a
\* non-null result gives that result again.
C11_NormalizeFormatCanonical ==
    FnDone("normalizeFormat") =>
       /\ \A k \in CanonicalKeys :
             fnArg.t = "string" /\ fnArg.v \in CaseVariants(k)
                => fnResult.value = Str(k)
       /\ \A a \in DOMAIN AliasOf :
             fnArg.t = "string" /\ fnArg.v \in CaseVariants(a)
                => fnResult.value = Str(AliasOf[a])
       /\ fnArg.t \in {"null", "undefined"} => fnResult.value = Null
       /\ fnArg.t = "string" /\ fnArg.v = <<>> => fnResult.value = Null
       /\ fnResult.value.t = "string"
             => normalizeFormat(fnResult.value) = fnResult.value

C11_Witness ==
    /\ FnDone("normalizeFormat")
    /\ fnArg = Str(<<"H", "E", "i", "F">>)
    /\ fnResult = FnReturned(Str(heic))

\* C12: for every token that is no spelling of a canonical key or of an
\* alias normalizeFormat returns null, and every non-null result is a key
\* of the format registry.
C12_UnknownTokenIsNull ==
    FnDone("normalizeFormat") =>
       /\ (/\ fnArg.t = "string"
           /\ \A k \in CanonicalKeys \cup DOMAIN AliasOf : fnArg.v \notin CaseVariants(k))
             => fnResult.value = Null
       /\ fnResult.value.t = "string" => fnResult.value.v \in CanonicalKeys

Clamp(n) == IF n < 1 THEN 1 ELSE IF n > 100 THEN 100 ELSE n

\* the integer a quality string starts with (after white space and a sign)
LeadingInteger ==
    [q \in {Str(<<"8", "5", ".", "7">>), Str(<<" ", "4", "2">>), Str(<<"1", "2", "a", "b", "c">>), Str(<<"-", "3">>), Str(<<"+", "7">>), Str(<<"1", "e", "3">>), Str(<<"1", "0", "0">>), Str(<<"1", "0", "1">>), Str(<<"7", "5">>)} |->
        IF q = Str(<<"8", "5", ".", "7">>) THEN 85
        ELSE IF q = Str(<<" ", "4", "2">>) THEN 42
        ELSE IF q = Str(<<"1", "2", "a", "b", "c">>) THEN 12
        ELSE IF q = Str(<<"-", "3">>) THEN 1
        ELSE IF q = Str(<<"+", "7">>) THEN 7
        ELSE IF q = Str(<<"1", "e", "3">>) THEN 1
        ELSE IF q = Str(<<"1", "0", "0">>) THEN 100
        ELSE IF q = Str(<<"1", "0", "1">>) THEN 100
        ELSE IF q = Str(<<"7", "5">>) THEN 75
        ELSE 0]

\* C13: normalizeQuality returns null for an argument that does not start
\* with a base-10 integer (undefined, null, NaN, "", "abc"), and otherwise
\* the integer it starts with clamped into [1,100] (150 -> 100, 0 -> 1,
\* negative -> 1); every non-null result is an integer in [1,100].
C13_NormalizeQualityClamped ==
    FnDone("normalizeQuality") =>
       /\ \/ fnResult.value = Null
          \/ /\ fnResult.value.t = "number"
             /\ fnResult.value.n \in 1..100
       /\ fnArg.t \in {"null", "undefined", "NaN"} => fnResult.value = Null
       /\ fnArg \in {Str(<<>>), Str(<<"a", "b", "c">>)} => fnResult.value = Null
       /\ fnArg.t = "number" => fnResult.value = Num(Clamp(fnArg.n))
       /\ fnArg \in DOMAIN LeadingInteger
             => fnResult.value = Num(Clamp(LeadingInteger[fnArg]))

C13_Witness ==
    /\ FnDone("normalizeQuality")
    /\ fnArg = Num(150)
    /\ fnResult = FnReturned(Num(100))

-----------------------------------------------------------------------------
(* encodeOutputBuffer: the quality handed to the codec *)

QualityCapable == {jpeg, webp, avif, heic}

\* the registry key a target token spells, in any letter case or as an alias
KeyOfTarget(target) ==
    CHOOSE k \in CanonicalKeys :
       \/ target.v \in CaseVariants(k)
       \/ \E a \in DOMAIN AliasOf : AliasOf[a] = k /\ target.v \in CaseVariants(a)

\* the quality a request stands for: the clamped number, 90 when the request
\* is absent or not numeric
RequestedQuality(request) ==
    IF request.t = "number" THEN Clamp(request.n)
    ELSE IF request = Str(<<"7", "5">>) THEN 75
    ELSE 90

\* C14: when encodeOutputBuffer produced an output, for the targets jpeg,
\* webp, avif and heic the encoder is configured with an integer quality in
\* [1,100]: the clamped request, or 90 when the request is absent or not
\* numeric; for png, gif, tiff and bmp no call of the pipeline is given a
\* quality.
C14_QualityHandedToCodec ==
    encPc = "done" /\ ~encResult.threw =>
       LET key == KeyOfTarget(targetFormat)
       IN  IF key \in QualityCapable
           THEN \A i \in EncoderCalls(encResult.calls) :
                   /\ encResult.calls[i].quality = Num(RequestedQuality(qualityValue))
                   /\ encResult.calls[i].quality.n \in 1..100
           ELSE \A i \in DOMAIN encResult.calls : encResult.calls[i].quality = Undef

C14_Witness ==
    /\ encPc = "done"
    /\ ~encResult.threw
    /\ targetFormat = Str(webp)
    /\ qualityValue = Num(150)
    /\ encResult.calls = <<Call("webp", Num(100))>>

-----------------------------------------------------------------------------
(* buildSaveFilters *)

GroupOf(key) == [name |-> LabelOf(key), extensions |-> List(OUTPUT_FORMATS[key].extensions)]

CanonicalOrder == <<jpeg, png, webp, avif, heic, gif, bmp, tiff>>

AllImagesGroup ==
    [name |-> Label("All Images"),
     extensions |-> List(<<jpg, jpeg, png, webp, avif, heic, heif, gif, bmp, tif, tiff>>)]

GroupsOf(keys) == [i \in 1..Len(keys) |-> GroupOf(keys[i])]

\* the target token spells a registry key or an alias
Recognised(target) ==
    /\ target.t = "string"
    /\ \E k \in CanonicalKeys \cup DOMAIN AliasOf : target.v \in CaseVariants(k)

ExpectedFilters(target) ==
    IF Recognised(target)
    THEN LET key == KeyOfTarget(target)
             Other(k) == k # key
         IN  <<GroupOf(key)>> \o GroupsOf(SelectSeq(CanonicalOrder, Other))
             \o <<AllImagesGroup>>
    ELSE GroupsOf(CanonicalOrder) \o <<AllImagesGroup>>

\* C15: for every target token buildSaveFilters returns 9 groups: the group
\* of the registry key the token normalises to first (when there is one),
\* then the groups of the other formats in the order jpeg, png, webp, avif,
\* heic, gif, bmp, tiff, then 'All Images' with every extension of every
\* format; each format group occurs exactly once.
C15_SaveFiltersOrder ==
    FnDone("buildSaveFilters") =>
       /\ fnResult.value = ExpectedFilters(fnArg)
       /\ Len(fnResult.value) = 9
       /\ \A k \in CanonicalKeys :
             Cardinality({i \in DOMAIN fnResult.value : fnResult.value[i] = GroupOf(k)}) = 1

-----------------------------------------------------------------------------
(* save-image: the format the output is written in *)

\* the lower-cased extension of the suggested name, <<>> when there is none
SuggestedExtension ==
    IF saveArgs.defaultName.t # "string" THEN <<>>
    ELSE IF \A i \in DOMAIN saveArgs.defaultName.v : saveArgs.defaultName.v[i] # "."
    THEN <<>>
    ELSE ToLowerCase(AfterLastDot(saveArgs.defaultName.v))

NoRecognisedTarget == ~Recognised(saveArgs.targetFormat)

DialogShown == Contains(saveTrace, "showSaveDialog")

\* C16: when the target token of a save-image call is absent or no
\* recognised format, the format is taken from the extension of the
\* suggested name; when that is no registry format either (no extension,
\* unknown extension), the encoder is never invoked: once the input passed
\* the size check its bytes are written unchanged, and a success result
\* reports the input length as size and no format.
C16_FallbackToNameThenAsIs ==
    NoRecognisedTarget =>
       /\ DialogShown /\ Recognised(Str(SuggestedExtension))
             => saveLocals.format = Str(KeyOfTarget(Str(SuggestedExtension)))
       /\ ~Recognised(Str(SuggestedExtension))
             => /\ ~Contains(saveTrace, "encodeOutputBuffer")
                /\ savePc = "done" /\ Contains(saveTrace, "sizeCheck")
                      /\ saveResult # SizeFailure
                      => Contains(saveTrace, "writeFileSync")
                /\ savePc = "done" /\ saveResult.success
                      => /\ saveResult.size = SaveInputLength
                         /\ saveResult.format = Null

-----------------------------------------------------------------------------
(* C17: the decode request *)

DecodeReplied == decodeReply # Pending

\* a reply of the form { success: true, dataUrl: 'data:image/png;base64,...',
\* width, height }
DecodeSuccessReply ==
    /\ decodeReply.state = "returned"
    /\ decodeReply.canvas.success
    /\ decodeReply.canvas.dataUrl = PngHead
    /\ ~Falsy(decodeReply.canvas.width)
    /\ ~Falsy(decodeReply.canvas.height)

\* a reply of the form { success: false, error }
DecodeFailureReply ==
    /\ decodeReply.state = "returned"
    /\ ~decodeReply.canvas.success
    /\ "error" \in DOMAIN decodeReply.canvas

\* C17: every answer of the decode-image handler is a returned result, either
\* { success: true } with a PNG data URL, a width and a height, or
\* { success: false, error }; the handler never throws and its promise never
\* rejects.
C17_DecodeFailuresAreResults ==
    DecodeReplied => DecodeSuccessReply \/ DecodeFailureReply

\* the part of C17 about successes: a returned reply is a success reply
C17_ReturnedReplyIsSuccess ==
    DecodeReplied /\ decodeReply.state = "returned" => DecodeSuccessReply

-----------------------------------------------------------------------------
(* C18: the results of save-image *)

SaveReturned == savePc = "done"

SaveSuccessShape ==
    /\ DOMAIN saveResult = {"success", "path", "size", "format"}
    /\ saveResult.success

SaveCancelledShape == saveResult = [success |-> FALSE, cancelled |-> TRUE]

SaveFailureShape ==
    /\ DOMAIN saveResult = {"success", "error", "code"}
    /\ ~saveResult.success

SaveEncoded == \E i \in DOMAIN saveTrace : saveTrace[i] = "encodeOutputBuffer"

-----------------------------------------------------------------------------
(* C19: decoded dimensions *)

PositiveSide(side) == side.t = "number" /\ side.n > 0

PositiveDims(dims) ==
    /\ dims # Null
    /\ PositiveSide(dims.width)
    /\ PositiveSide(dims.height)

InvalidDimensionsMessages ==
    {"Invalid image dimensions: ", "Decoded image has invalid dimensions",
     "Image has invalid dimensions (0x0)"}

InvalidDimensionsError(error) ==
    /\ error # Null
    /\ \E j \in DOMAIN error.message : error.message[j] \in InvalidDimensionsMessages

\* the decoder whose image a value refers to produced it with positive
\* dimensions
DecodedBy(decoder) ==
    \E i \in DOMAIN attempts :
        /\ attempts[i].decoder = decoder
        /\ attempts[i].ok
        /\ PositiveDims(attempts[i].dims)

\* C19: a decoder run (libheif, createImageBitmap, the Image element of the
\* AVIF fallback, sharp in decode-image, the Image element of the standard
\* load) that reports a width or height that is zero, negative or missing is a
\* failed run with an invalid-dimensions error, and every successful run has
\* positive dimensions; the canvas decode returns, the canvas stored as
\* current, the reply of decode-image and the image loaded as current all come
\* from a successful run.
C19_NoSuccessWithoutDimensions ==
    /\ \A i \in DOMAIN attempts :
          /\ attempts[i].ok => PositiveDims(attempts[i].dims)
          /\ attempts[i].dims # Null /\ ~PositiveDims(attempts[i].dims)
                => /\ ~attempts[i].ok
                   /\ InvalidDimensionsError(attempts[i].error)
    /\ decodeResult.state = "returned" => DecodedBy(decodeResult.canvas)
    /\ currentCanvas # Null => DecodedBy(currentCanvas.canvas)
    /\ decodeReply.state = "returned"
          => /\ DecodedBy("sharp")
             /\ PositiveSide(decodeReply.canvas.width)
             /\ PositiveSide(decodeReply.canvas.height)
    /\ loadResult.state = "loaded"
          => /\ attempts # <<>>
             /\ attempts[Len(attempts)].ok

C19_Witness ==
    /\ Len(attempts) = 3
    /\ attempts[1].decoder = "libheif"
    /\ attempts[1].dims = Dims(Num(DecodedSide), Num(-1))
    /\ attempts[2].decoder = "createImageBitmap"
    /\ attempts[2].dims = Dims(Num(0), Num(DecodedSide))
    /\ attempts[3].decoder = "imageElement"
    /\ attempts[3].dims = Dims(Num(0), Num(0))
    /\ loadResult.state = "failed"
    /\ currentCanvas = Null

-----------------------------------------------------------------------------
(* C20: parseDataUrl *)

\* the position of the first ';' of a string, 0 when it has none
FirstSemicolon(text) ==
    IF \E i \in 1..Len(text) : text[i] = ";"
    THEN CHOOSE i \in 1..Len(text) : text[i] = ";" /\ \A j \in 1..(i - 1) : text[j] # ";"
    ELSE 0

\* the text after the ';base64,' that follows the MIME type
PayloadText(text) ==
    SubSeq(text, FirstSemicolon(text) + Len(Base64Marker), Len(text))

\* 'data:', a MIME type of at least one character, ';base64,'
WellFormedHead(text) ==
    /\ Len(text) >= Len(DataScheme)
    /\ SubSeq(text, 1, Len(DataScheme)) = DataScheme
    /\ FirstSemicolon(text) > Len(DataScheme) + 1
    /\ Len(text) >= FirstSemicolon(text) + Len(Base64Marker) - 1
    /\ SubSeq(text, FirstSemicolon(text), FirstSemicolon(text) + Len(Base64Marker) - 1)
          = Base64Marker

\* groups of four characters of A-Z a-z 0-9 + /, the last group ending in at
\* most two '='
WellFormedBase64(text) ==
    /\ Len(text) > 0
    /\ Len(text) % 4 = 0
    /\ \E pad \in 0..2 :
          /\ \A i \in 1..(Len(text) - pad) :
                IsBase64Char(text[i]) /\ text[i] \notin {"-", "_"}
          /\ \A i \in (Len(text) - pad + 1)..Len(text) : text[i] = "="

WellFormedDataUrl(text) ==
    /\ WellFormedHead(text)
    /\ WellFormedBase64(PayloadText(text))

\* C20: parseDataUrl returns bytes for the well-formed strings only: it fails
\* for a string whose scheme is not 'data:', whose MIME type is missing, whose
\* ';base64,' marker is missing, whose payload is empty, or whose payload is
\* not well-formed base64.
C20_OnlyWellFormedParses ==
    FnDone("parseDataUrl") =>
        (fnResult.state = "returned" <=> WellFormedDataUrl(fnArg.v))

\* the part of C20 about the head and the empty payload: a string without a
\* well-formed head or without payload fails, a well-formed string returns
\* the bytes of its payload
C20_MalformedHeadFails ==
    FnDone("parseDataUrl") =>
        /\ ~WellFormedHead(fnArg.v) \/ PayloadText(fnArg.v) = <<>>
              => fnResult.state = "threw"
        /\ WellFormedDataUrl(fnArg.v)
              => /\ fnResult.state = "returned"
                 /\ fnResult.value.length
                       = (Len(PayloadText(fnArg.v)) \div 4) * 3
                         - Cardinality({i \in DOMAIN PayloadText(fnArg.v) :
                                           PayloadText(fnArg.v)[i] = "="})

-----------------------------------------------------------------------------
(* C21: loading HEIC and AVIF sources without a decoder *)

DecoderUnavailableError(result) ==
    /\ result.state = "failed"
    /\ \E j \in DOMAIN result.error.message :
          result.error.message[j] = " decoder not available. Please restart the app."

\* C21: when the renderer holds no decoder, a file whose name or declared
\* type indicates HEIC/HEIF or AVIF is neither reported as an unsupported file
\* type nor handed to the native raster decoder, and its load ends with the
\* decoder-not-available error.
C21_DecoderUnavailableReported ==
    ~heicDecoder /\ dispatched \notin {"none", "direct"}
                 /\ Strategy(File) \in {"heic", "avif"}
       => /\ dispatched \notin {"unsupported", "standard"}
          /\ loadPc = "done" => DecoderUnavailableError(loadResult)

-----------------------------------------------------------------------------
(* The renderer: canvases and convertImage (renderer lines 932-1090).      *)
(* A surface is a width, a height and one pixel per position; a pixel is a *)
(* shade v (one colour channel stands for the three) and an alpha a, both  *)
(* 0..255.  An Image element and a canvas hold a surface; a canvas is      *)
(* drawn on, an Image element is not.                                      *)

Pixel(v, a) == [v |-> v, a |-> a]

Transparent == Pixel(0, 0)

White == Pixel(255, 255)

Surface(w, h, pixels) == [width |-> w, height |-> h, pixels |-> pixels]

\* canvas.width = w; canvas.height = h: the canvas is cleared to transparent
\* black
Blank(w, h) == Surface(w, h, [i \in 1..(w * h) |-> Transparent])

\* ctx.fillStyle = '#FFFFFF'; ctx.fillRect(0, 0, canvas.width, canvas.height)
FillWhite(surface) == [surface EXCEPT !.pixels = [i \in DOMAIN surface.pixels |-> White]]

\* one pixel of globalCompositeOperation 'source-over'
SourceOver(src, dst) ==
    LET outA == src.a + (dst.a * (255 - src.a)) \div 255
    IN  IF outA = 0 THEN Transparent
        ELSE Pixel((src.v * src.a + (dst.v * dst.a * (255 - src.a)) \div 255) \div outA,
                   outA)

\* ctx.drawImage(source, 0, 0) on a target of the same size
DrawImage(target, source) ==
    [target EXCEPT !.pixels = [i \in DOMAIN target.pixels |->
                                  IF i \in DOMAIN source.pixels
                                  THEN SourceOver(source.pixels[i], target.pixels[i])
                                  ELSE target.pixels[i]]]

NeedsWhiteBackgroundJpegOnly(format) == format = jpeg

\* format === 'jpeg' || format === 'bmp'
NeedsWhiteBackground(format) == format = jpeg \/ format = bmp

ConversionTargetCurrent(hasCanvas, format) ==
    IF hasCanvas THEN "currentCanvas" ELSE "created"

\* the canvas object the variable canvas of convertImage names: currentCanvas
\* itself, or one made by document.createElement('canvas')
ConversionTarget(hasCanvas, format) ==
    IF hasCanvas /\ ~NeedsWhiteBackground(format) THEN "currentCanvas" ELSE "created"

\* the body of the try block up to canvas.toDataURL: the two canvases after
\* the drawing (what currentCanvas holds, what canvas holds), or the error
\* thrown
DrawForConversion(current, image, format) ==
    LET hasCanvas == current # Null
        target == ConversionTarget(hasCanvas, format)
        source == IF hasCanvas THEN current.surface
                  ELSE IF image # Null THEN image.surface
                  ELSE Blank(0, 0)
        objects0 == [currentCanvas |-> IF hasCanvas THEN current.surface ELSE Blank(0, 0),
                     created |-> Blank(0, 0)]
        drawsAnew == ~hasCanvas \/ NeedsWhiteBackground(format)
        sized == [objects0 EXCEPT ![target] = Blank(source.width, source.height)]
        filled == IF NeedsWhiteBackground(format)
                  THEN [sized EXCEPT ![target] = FillWhite(sized[target])]
                  ELSE sized
        drawn == [filled EXCEPT ![target] =
                     DrawImage(filled[target],
                               IF hasCanvas THEN filled.currentCanvas ELSE image.surface)]
    IN  IF ~hasCanvas /\ image = Null
        THEN [threw |-> TRUE, error |-> "Cannot read properties of null",
              currentCanvas |-> current]
        ELSE IF ~drawsAnew
        THEN [threw |-> FALSE, canvas |-> objects0[target],
              currentCanvas |-> current]
        ELSE IF source.width = 0 \/ source.height = 0
        THEN [threw |-> TRUE, error |-> "Canvas has invalid dimensions (0x0)",
              currentCanvas |-> IF hasCanvas
                                THEN [current EXCEPT !.surface = sized.currentCanvas]
                                ELSE current]
        ELSE [threw |-> FALSE, canvas |-> drawn[target],
              currentCanvas |-> IF hasCanvas
                                THEN [current EXCEPT !.surface = drawn.currentCanvas]
                                ELSE current]

\* the quality sent with the request (lines 1005-1011): the slider's value
\* when the selected card is the converted format and has a quality setting
TargetQuality(selected, format, sliderValue) ==
    IF selected # Null /\ selected.format = format /\ selected.quality
    THEN LET parsed == ParseInt(sliderValue)
         IN  IF parsed = NaN \/ parsed.n < 1 \/ parsed.n > 100 THEN Num(90) ELSE parsed
    ELSE Undef

\* const extension = selectedFormat?.extension || (format === 'jpeg' ? 'jpg' : format)
\* const defaultName = `${originalName}_converted.${extension}`
DefaultName(fileName, selected, format) ==
    LET originalName == StripExtension(fileName.v)
        extension == IF selected # Null /\ selected.extension # <<>>
                     THEN selected.extension
                     ELSE IF format = jpeg THEN jpg ELSE format
    IN  Str(originalName \o <<"_", "c", "o", "n", "v", "e", "r", "t", "e", "d", ".">>
            \o extension)

\* canvas.toDataURL('image/png'): the PNG of the canvas, which holds its
\* pixels as they are
ToDataURL(surface) == [t |-> "string", head |-> PngHead, png |-> surface]

\* the argument of ipcRenderer.invoke('save-image', ...)
SaveRequest(surface, fileName, selected, format, sliderValue) ==
    [dataUrl |-> ToDataURL(surface),
     defaultName |-> DefaultName(fileName, selected, format),
     targetFormat |-> Str(format),
     quality |-> TargetQuality(selected, format, sliderValue)]

-----------------------------------------------------------------------------
(* The renderer: format cards, the convert button and the save reply *)

MaxConversions == 2

\* the conversions that wait for their frame or for the answer of save-image
\* at one time
MaxInFlight == 1

\* the variables of the other parts of the model, which the window's
\* handlers leave alone
outsideRenderer ==
    <<bmpVars, encVars, saveVars, fnVars, loadPc, loadArgs, heicDecoder, dispatched,
      decodeArgs, decodeReply, attempts, onErrorCalls, decodeResult, loadResult,
      mainVars, logVars>>

\* the cards of the window: data-format, data-extension, data-quality
Card(format, extension, quality) ==
    [format |-> format, extension |-> extension, quality |-> quality]

FormatCards ==
    {Card(jpeg, jpg, TRUE), Card(bmp, bmp, FALSE), Card(png, png, FALSE)}

\* the values the quality slider can hold
SliderValues == {Str(<<"8", "5">>), Str(<<"0">>)}

\* what save-image can answer
SaveReplies ==
    {SaveSuccess(Str(<<"/", "o", ".", "j", "p", "g">>), 64, Str(jpeg)),
     SaveCancelled,
     SaveFailure("Permission denied. Cannot write to selected location.", Undef)}

Conversion(format, pc, request, reply) ==
    [format |-> format, pc |-> pc, request |-> request, reply |-> reply]

\* a click on a format card: if (!currentImage || card.disabled) return;
\* selectFormat(card)
ClickFormatCard ==
    /\ currentImage # Null
    /\ ~formatCardsDisabled
    /\ \E card \in FormatCards : selectedFormat' = card
    /\ UNCHANGED <<currentImage, currentFile, currentFileName, currentFilePath,
                   formatCardsDisabled, activeModal, statusText, loads, conversions,
                   currentCanvas>>
    /\ UNCHANGED outsideRenderer

\* closeFormatSettings click: clearFormatSelection
CloseFormatSettings ==
    /\ selectedFormat # Null
    /\ selectedFormat' = Null
    /\ UNCHANGED <<currentImage, currentFile, currentFileName, currentFilePath,
                   formatCardsDisabled, activeModal, statusText, loads, conversions,
                   currentCanvas>>
    /\ UNCHANGED outsideRenderer

\* convertBtn click: if (!currentImage || !selectedFormat) return;
\* convertImage(selectedFormat.format, ...) up to requestAnimationFrame
ClickConvert ==
    /\ Len(conversions) < MaxConversions
    /\ Cardinality({i \in DOMAIN conversions : conversions[i].pc \in {"frame", "saving"}})
          < MaxInFlight
    /\ currentImage # Null
    /\ selectedFormat # Null
    /\ statusText' = Status(<<Text("Converting...")>>, "info")
    /\ conversions' = Append(conversions,
                             Conversion(selectedFormat.format, "frame", Null, Null))
    /\ UNCHANGED <<currentImage, currentFile, currentFileName, currentFilePath,
                   selectedFormat, formatCardsDisabled, activeModal, loads,
                   currentCanvas>>
    /\ UNCHANGED outsideRenderer

\* the requestAnimationFrame callback of convertImage: draw, export, send the
\* request, or show 'Conversion failed'
ConversionRuns ==
    /\ \E i \in DOMAIN conversions, sliderValue \in SliderValues, exportOk \in BOOLEAN :
          LET format == conversions[i].format
              drawn == DrawForConversion(currentCanvas, currentImage, format)
          IN  /\ conversions[i].pc = "frame"
              /\ \A j \in 1..(i - 1) : conversions[j].pc # "frame"
              /\ currentCanvas' = drawn.currentCanvas
              /\ IF drawn.threw
                 THEN /\ statusText' = Status(<<Text("Conversion failed: "),
                                                Text(drawn.error)>>, "error")
                      /\ conversions' = [conversions EXCEPT ![i].pc = "failed"]
                 ELSE IF ~exportOk
                 THEN /\ statusText' = Status(<<Text("Conversion failed: "),
                                                Text("Canvas export failed: "),
                                                Text(". The image may be too large.")>>,
                                              "error")
                      /\ conversions' = [conversions EXCEPT ![i].pc = "failed"]
                 ELSE /\ UNCHANGED statusText
                      /\ conversions' =
                            [conversions EXCEPT
                                ![i] = Conversion(format, "saving",
                                                  SaveRequest(drawn.canvas, currentFileName,
                                                              selectedFormat, format,
                                                              sliderValue),
                                                  Null)]
    /\ UNCHANGED <<currentImage, currentFile, currentFileName, currentFilePath,
                   selectedFormat, formatCardsDisabled, activeModal, loads>>
    /\ UNCHANGED outsideRenderer

\* .then(result => ...) of the save-image call
SaveAnswered ==
    /\ \E i \in DOMAIN conversions, result \in SaveReplies :
          /\ conversions[i].pc = "saving"
          /\ conversions' = [conversions EXCEPT
                                ![i] = Conversion(conversions[i].format, "answered",
                                                  Null, result)]
          /\ statusText' = IF result.success
                           THEN Status(<<Text("Saved: "), result.path>>, "success")
                           ELSE Status(<<Text("Save cancelled")>>, "info")
    /\ UNCHANGED <<currentImage, currentFile, currentFileName, currentFilePath,
                   selectedFormat, formatCardsDisabled, activeModal, loads,
                   currentCanvas>>
    /\ UNCHANGED outsideRenderer

\* .catch(err => ...) of the save-image call: the invoke itself rejected
SaveRejected ==
    /\ \E i \in DOMAIN conversions :
          /\ conversions[i].pc = "saving"
          /\ conversions' = [conversions EXCEPT
                                ![i] = Conversion(conversions[i].format, "rejected", Null,
                                                  Err(<<"Error invoking remote method">>))]
          /\ statusText' = Status(<<Text("Failed to save file"), Text(": "),
                                    Text("Error invoking remote method")>>, "error")
    /\ UNCHANGED <<currentImage, currentFile, currentFileName, currentFilePath,
                   selectedFormat, formatCardsDisabled, activeModal, loads,
                   currentCanvas>>
    /\ UNCHANGED outsideRenderer

-----------------------------------------------------------------------------
(* Conversions of one loaded image *)

\* the width of the images converted (their height is 1)
SurfaceWidth == 2

\* an Image element or a canvas: the surface it holds and the name of the
\* file the surface was decoded from
Picture(name, surface) == [of |-> name, surface |-> surface]

\* a file the user can select: what handleFile reads of it, and the surface
\* its bytes decode to
RendererFile(name, type, size, surface) ==
    [name |-> Str(name), type |-> Str(type), size |-> size, path |-> Undef,
     decodesTo |-> surface]

\* a handleFile call: its file, the handler chosen, its position, the canvas
\* its decoder returned (held by the closure of img.onload), whether resetApp
\* has run since the call was made, and whether an earlier call was still
\* decoding when it was made
Load(file, handler, pc, canvas, resetSince, overlapped) ==
    [file |-> file, handler |-> handler, pc |-> pc, canvas |-> canvas,
     resetSince |-> resetSince, overlapped |-> overlapped]

ConvertPixels == {Transparent, Pixel(200, 128), Pixel(200, 255)}

ConvertSurfaces ==
    {Surface(SurfaceWidth, 1, pixels) : pixels \in [1..SurfaceWidth -> ConvertPixels]}

\* the other parts of the model at rest while the window is used
OutsideRendererIdle ==
    /\ BmpIdle
    /\ EncIdle
    /\ SaveIdle
    /\ FnIdle
    /\ MainIdle
    /\ LogIdle
    /\ sharp = FALSE
    /\ loadPc = "idle"
    /\ loadArgs = [file |-> Null, filePath |-> Null]
    /\ dispatched = "none"
    /\ decodeArgs = [filePath |-> Null, arrayBuffer |-> Null, dataUrl |-> Undef]
    /\ decodeReply = Pending
    /\ attempts = <<>>
    /\ onErrorCalls = <<>>
    /\ decodeResult = Pending
    /\ loadResult = Pending

\* the window after one load has finished: a HEIC file decoded to a canvas
\* (currentCanvas and its preview image), or a PNG file decoded by an Image
\* element (no canvas)
ConvertInit ==
    /\ \E surface \in ConvertSurfaces, canvasBacked \in BOOLEAN :
          LET file == IF canvasBacked
                      THEN RendererFile(<<"a">> \o Dot(heic), MimeType(heic), 2048, surface)
                      ELSE RendererFile(<<"b">> \o Dot(png), MimeType(png), 2048, surface)
              picture == Picture(file.name, surface)
          IN  /\ currentImage = picture
              /\ currentCanvas = IF canvasBacked THEN picture ELSE Null
              /\ currentFile = file
              /\ currentFileName = file.name
              /\ loads = <<Load(file, Dispatch(file, TRUE), "done",
                                IF canvasBacked THEN picture ELSE Null, FALSE,
                                FALSE)>>
              /\ statusText = Status(<<Text("Loaded"), file.name>>, "success")
    /\ currentFilePath = Null
    /\ heicDecoder = TRUE
    /\ selectedFormat = Null
    /\ formatCardsDisabled = FALSE
    /\ activeModal = Null
    /\ conversions = <<>>
    /\ OutsideRendererIdle

ConvertNext ==
    \/ ClickFormatCard
    \/ CloseFormatSettings
    \/ ClickConvert
    \/ ConversionRuns
    \/ SaveAnswered
    \/ SaveRejected

SpecConvert == ConvertInit /\ [][ConvertNext]_vars

-----------------------------------------------------------------------------
(* C22, C24, C25: what a conversion sends, keeps and shows *)

\* the surface the load of the window decoded
LoadedSurface == loads[1].file.decodesTo

Sending(i) == i \in DOMAIN conversions /\ conversions[i].pc = "saving"

SentSurface(i) == conversions[i].request.dataUrl.png

\* a pixel drawn source-over on opaque white
OverWhite(p) == Pixel((p.v * p.a + 255 * (255 - p.a)) \div 255, 255)

\* C22: the PNG sent with a request for jpeg or bmp has the width and height
\* of the loaded image and holds each of its pixels drawn source-over on
\* opaque white, so every pixel sent is opaque, whether the image is held by
\* a canvas or by an Image element; the PNG sent for any other format is the
\* loaded surface, alpha included.
C22_WhiteBackgroundForJpegAndBmp ==
    \A i \in DOMAIN conversions :
        Sending(i) =>
            /\ SentSurface(i).width = LoadedSurface.width
            /\ SentSurface(i).height = LoadedSurface.height
            /\ DOMAIN SentSurface(i).pixels = DOMAIN LoadedSurface.pixels
            /\ IF conversions[i].format \in {jpeg, bmp}
               THEN \A k \in DOMAIN LoadedSurface.pixels :
                       /\ SentSurface(i).pixels[k] = OverWhite(LoadedSurface.pixels[k])
                       /\ SentSurface(i).pixels[k].a = 255
               ELSE SentSurface(i).pixels = LoadedSurface.pixels

C22_Witness ==
    /\ Sending(1)
    /\ conversions[1].format = bmp
    /\ currentCanvas # Null
    /\ LoadedSurface.pixels[1] = Transparent
    /\ LoadedSurface.pixels[2] = Pixel(200, 128)
    /\ SentSurface(1).pixels[1] = White
    /\ SentSurface(1).pixels[2] = Pixel(227, 255)

\* C24: while one loaded image is converted any number of times, currentImage
\* and currentCanvas hold the surface the load decoded, and a request for a
\* format without white background that follows a finished jpeg or bmp
\* conversion sends that surface.
C24_SourceNeverChanged ==
    /\ currentImage # Null /\ currentImage.surface = LoadedSurface
    /\ currentCanvas = loads[1].canvas
    /\ currentCanvas # Null => currentCanvas.surface = LoadedSurface
    /\ \A i \in DOMAIN conversions :
          /\ Sending(i)
          /\ conversions[i].format \notin {jpeg, bmp}
          /\ \E j \in 1..(i - 1) : conversions[j].format \in {jpeg, bmp}
          => SentSurface(i) = LoadedSurface

C24_Witness ==
    /\ Len(conversions) = 2
    /\ conversions[1].format = jpeg
    /\ conversions[1].pc = "answered"
    /\ conversions[1].reply.success
    /\ Sending(2)
    /\ conversions[2].format = png
    /\ currentCanvas # Null
    /\ LoadedSurface.pixels[1] = Transparent
    /\ SentSurface(2).pixels[1] = Transparent

\* the conversion answered last, when no later conversion was started
LastAnswer ==
    IF conversions # <<>> /\ conversions[Len(conversions)].pc = "answered"
    THEN conversions[Len(conversions)].reply
    ELSE Null

\* C25: after save-image answered { success: false, error: m } the status
\* area shows m as an error, and the status 'Save cancelled' is shown only
\* after the answer { success: false, cancelled: true }.
C25_SaveFailureShown ==
    LastAnswer # Null =>
        /\ "error" \in DOMAIN LastAnswer
              => /\ statusText.type = "error"
                 /\ \E j \in DOMAIN statusText.message :
                       statusText.message[j] = Text(LastAnswer.error)
        /\ statusText.message = <<Text("Save cancelled")>> => LastAnswer = SaveCancelled

-----------------------------------------------------------------------------
(* The renderer: file loads that overlap, Escape and the modals *)

MaxLoads == 2

\* the surface of the files of the window: one transparent and one opaque
\* pixel of a shade that tells the files apart
SurfaceOfShade(shade) == Surface(2, 1, <<Transparent, Pixel(shade, 255)>>)

\* the files the user can select; a file that decodes to null is damaged
RendererFiles ==
    {RendererFile(<<"a">> \o Dot(heic), MimeType(heic), 2048, SurfaceOfShade(10)),
     RendererFile(<<"b">> \o Dot(png), MimeType(png), 2048, SurfaceOfShade(20)),
     RendererFile(<<"c">> \o Dot(png), MimeType(png), 2048, Null),
     RendererFile(<<"d">> \o Dot(tif), MimeType(tiff), 2048, SurfaceOfShade(40)),
     RendererFile(<<"e", ".", "t", "x", "t">>, <<"t", "e", "x", "t", "/", "p", "l", "a", "i", "n">>,
                  2048, Null)}

ErrorStatus(message) == Status(<<Text("Error: "), Text(message)>>, "error")

\* handleFile(file) up to its first await (lines 541-600): the selection is
\* cleared, the file is checked and made current, and its handler starts
SelectFile ==
    /\ Len(loads) < MaxLoads
    /\ \E file \in RendererFiles :
          LET handler == Dispatch(file, heicDecoder)
              validation == validateFile(file)
              overlapped == \E j \in DOMAIN loads : loads[j].pc \in {"decoding", "preview"}
          IN  /\ selectedFormat' = Null
              /\ IF handler = "unsupported"
                 THEN /\ currentFile' = Null
                      /\ currentFilePath' = Null
                      /\ UNCHANGED currentFileName
                      /\ statusText' = Status(<<Text("Please select an image file (JPG, PNG, WebP, HEIC, AVIF, GIF, BMP, TIFF)")>>,
                                           "error")
                      /\ loads' = Append(loads, Load(file, handler, "failed", Null, FALSE,
                                                       overlapped))
                 ELSE /\ currentFile' = file
                      /\ currentFileName' = file.name
                      /\ currentFilePath' = IF ~Falsy(file.path) THEN file.path ELSE Null
                      /\ IF handler \in {"HEIC", "AVIF"} /\ ~validation.valid
                         THEN /\ statusText' = ErrorStatus(validation.error)
                              /\ loads' = Append(loads,
                                                 Load(file, handler, "failed", Null, FALSE,
                                                      overlapped))
                         ELSE /\ UNCHANGED statusText
                              /\ loads' = Append(loads,
                                                 Load(file, handler, "decoding", Null, FALSE,
                                                      overlapped))
    /\ UNCHANGED <<currentImage, formatCardsDisabled, activeModal, conversions,
                   currentCanvas>>
    /\ UNCHANGED outsideRenderer

\* the decoder of a load finishes: heicDecoder.decode (currentCanvas = canvas),
\* the decode-image call, or the FileReader
LoadDecodes ==
    /\ \E i \in DOMAIN loads :
          LET load == loads[i]
          IN  /\ load.pc = "decoding"
              /\ IF load.handler \in {"HEIC", "AVIF"}
                 THEN IF load.file.decodesTo = Null
                      THEN /\ statusText' = ErrorStatus("Decode error: ")
                           /\ loads' = [loads EXCEPT ![i].pc = "failed"]
                           /\ UNCHANGED currentCanvas
                      ELSE /\ currentCanvas' = Picture(load.file.name, load.file.decodesTo)
                           /\ loads' = [loads EXCEPT
                                           ![i].pc = "preview",
                                           ![i].canvas = Picture(load.file.name,
                                                                 load.file.decodesTo)]
                           /\ UNCHANGED statusText
                 ELSE IF load.handler = "TIFF" /\ load.file.decodesTo = Null
                 THEN /\ statusText' = ErrorStatus("TIFF decode failed: ")
                      /\ loads' = [loads EXCEPT ![i].pc = "failed"]
                      /\ UNCHANGED currentCanvas
                 ELSE /\ loads' = [loads EXCEPT ![i].pc = "preview"]
                      /\ UNCHANGED <<statusText, currentCanvas>>
    /\ UNCHANGED <<currentImage, currentFile, currentFileName, currentFilePath,
                   selectedFormat, formatCardsDisabled, activeModal, conversions>>
    /\ UNCHANGED outsideRenderer

\* img.onload of a load: the image becomes current and the cards are enabled;
\* showPreview stores the canvas of a HEIC/AVIF load again, the other
\* handlers set currentCanvas = null
LoadImageLoads ==
    /\ \E i \in DOMAIN loads :
          LET load == loads[i]
          IN  /\ load.pc = "preview"
              /\ load.file.decodesTo # Null
              /\ currentImage' = Picture(load.file.name, load.file.decodesTo)
              /\ currentCanvas' = IF load.handler \in {"HEIC", "AVIF"} THEN load.canvas
                                  ELSE Null
              /\ formatCardsDisabled' = FALSE
              /\ statusText' = Status(<<Text(IF load.handler = "standard" THEN "Loaded: "
                                                ELSE "Loaded " \o load.handler \o ": "),
                                           load.file.name>>, "success")
              /\ loads' = [loads EXCEPT ![i].pc = "done"]
    /\ UNCHANGED <<currentFile, currentFileName, currentFilePath, selectedFormat,
                   activeModal, conversions>>
    /\ UNCHANGED outsideRenderer

\* img.onerror of a load: the preview of a canvas cannot be loaded
\* (currentCanvas = null), or the Image element rejects the file's data
LoadImageFails ==
    /\ \E i \in DOMAIN loads :
          LET load == loads[i]
          IN  /\ load.pc = "preview"
              /\ \/ /\ load.handler \in {"HEIC", "AVIF"}
                    /\ currentCanvas' = Null
                    /\ statusText' = Status(<<Text("Failed to load "), Text(load.handler),
                                              Text(" preview image")>>, "error")
                 \/ /\ load.handler \notin {"HEIC", "AVIF"}
                    /\ load.file.decodesTo = Null
                    /\ UNCHANGED currentCanvas
                    /\ statusText' = ErrorStatus("Failed to load image data. The file may be corrupted or unsupported.")
              /\ loads' = [loads EXCEPT ![i].pc = "failed"]
    /\ UNCHANGED <<currentImage, currentFile, currentFileName, currentFilePath,
                   selectedFormat, formatCardsDisabled, activeModal, conversions>>
    /\ UNCHANGED outsideRenderer

\* the menu or the about modal is opened: openModal(modal)
OpenModal ==
    /\ \E modal \in {"menuModal", "aboutModal"} : activeModal' = Text(modal)
    /\ UNCHANGED <<currentImage, currentFile, currentFileName, currentFilePath,
                   selectedFormat, formatCardsDisabled, statusText, loads, conversions,
                   currentCanvas>>
    /\ UNCHANGED outsideRenderer

\* keydown Escape with a modal open: closeActiveModal()
EscapeClosesModal ==
    /\ activeModal # Null
    /\ activeModal' = Null
    /\ UNCHANGED <<currentImage, currentFile, currentFileName, currentFilePath,
                   selectedFormat, formatCardsDisabled, statusText, loads, conversions,
                   currentCanvas>>
    /\ UNCHANGED outsideRenderer

\* keydown Escape with no modal open: resetApp()
EscapeResets ==
    /\ activeModal = Null
    /\ currentImage' = Null
    /\ currentFile' = Null
    /\ currentFileName' = Str(<<>>)
    /\ currentCanvas' = Null
    /\ currentFilePath' = Null
    /\ formatCardsDisabled' = TRUE
    /\ selectedFormat' = Null
    /\ statusText' = Status(<<Text("Ready")>>, "info")
    /\ loads' = [i \in DOMAIN loads |-> [loads[i] EXCEPT !.resetSince = TRUE]]
    /\ UNCHANGED <<activeModal, conversions>>
    /\ UNCHANGED outsideRenderer

\* the window after DOMContentLoaded: nothing loaded, the decoder initialised
\* or not
RendererInit ==
    /\ RendererIdle
    /\ currentCanvas = Null
    /\ heicDecoder \in BOOLEAN
    /\ OutsideRendererIdle

RendererNext ==
    \/ SelectFile
    \/ LoadDecodes
    \/ LoadImageLoads
    \/ LoadImageFails
    \/ OpenModal
    \/ EscapeClosesModal
    \/ EscapeResets
    \/ ClickFormatCard
    \/ ClickConvert
    \/ ConversionRuns

SpecRenderer == RendererInit /\ [][RendererNext]_vars

-----------------------------------------------------------------------------
(* C23: Escape *)

\* no file has been selected since resetApp last ran
ResetAndNothingSelectedSince ==
    /\ loads # <<>>
    /\ \A i \in DOMAIN loads : loads[i].resetSince

NothingLoaded ==
    /\ currentImage = Null
    /\ currentCanvas = Null
    /\ currentFile = Null
    /\ formatCardsDisabled
    /\ selectedFormat = Null

\* C23: Escape with a modal open only closes the modal; Escape with no modal
\* open resets the window, and from then until another file is selected no
\* image, canvas or file is current, the format cards are disabled and no
\* format is selected, also when a load was in flight at the reset
C23_ResetStaysUntilNextFile ==
    /\ [][EscapeClosesModal => /\ activeModal' = Null
                               /\ UNCHANGED <<currentImage, currentCanvas, currentFile,
                                              selectedFormat, formatCardsDisabled>>]_vars
    /\ [][EscapeResets => NothingLoaded']_vars
    /\ [](ResetAndNothingSelectedSince => NothingLoaded)

-----------------------------------------------------------------------------
(* C26, C27: the pixels and the name of the current file *)

\* the file whose pixels a surface shows: the files differ in the shade of
\* their opaque pixel, which no conversion changes
ShowsPixelsOf(surface, file) ==
    /\ file.decodesTo # Null
    /\ surface.pixels[2].v = file.decodesTo.pixels[2].v

\* a request is sent under the name of a file: 'name_converted.ext'
UnderNameOf(request, file) ==
    StartsWith(request.defaultName.v,
               StripExtension(file.name.v) \o <<"_", "c", "o", "n", "v", "e", "r", "t", "e", "d">>)

\* every request sent carries the pixels of the file it is named after
PixelsSavedUnderOwnName ==
    \A i \in DOMAIN conversions :
       conversions[i].pc = "saving" =>
          \A file \in RendererFiles :
             ShowsPixelsOf(conversions[i].request.dataUrl.png, file) =>
                UnderNameOf(conversions[i].request, file)

NoReset == \A i \in DOMAIN loads : ~loads[i].resetSince

\* two loads that overlapped have both finished
OverlappingLoadsFinished ==
    /\ Len(loads) = 2
    /\ loads[2].overlapped
    /\ loads[1].pc = "done"
    /\ loads[2].pc = "done"
    /\ NoReset

\* every field of the window shows this file
CurrentInEveryField(file) ==
    /\ currentImage # Null
    /\ currentImage.of = file.name
    /\ currentCanvas # Null => currentCanvas.of = file.name
    /\ currentFile = file
    /\ currentFileName = file.name

\* C26: when a second load starts while an earlier one is decoding, then once
\* both have finished the loaded pixels are those of the file selected last,
\* which currentFile and currentFileName name, and no request carries the
\* pixels of one file under the name of another
C26_LastSelectedFileWins ==
    /\ OverlappingLoadsFinished => CurrentInEveryField(loads[2].file)
    /\ (Len(loads) = 2 /\ loads[2].overlapped /\ NoReset) => PixelsSavedUnderOwnName

\* a load has failed after an earlier load succeeded
FailedAfterLoaded ==
    /\ Len(loads) = 2
    /\ ~loads[2].overlapped
    /\ loads[1].pc = "done"
    /\ loads[2].pc = "failed"
    /\ NoReset

\* C27: after a load that fails following a successful one, either the
\* earlier file is still current in every field, or no image is loaded and
\* no conversion can be started; the old pixels are never sent under the
\* name of the file that failed to load
C27_FailedLoadKeepsOrClears ==
    FailedAfterLoaded =>
       /\ \/ CurrentInEveryField(loads[1].file)
          \/ currentImage = Null /\ currentCanvas = Null /\ selectedFormat = Null
       /\ PixelsSavedUnderOwnName

-----------------------------------------------------------------------------
(* Main process: save-image calls one after another, open-containing-folder *)
(* and open-file                                                            *)

MaxSaves == 2

\* the variables the handlers of the main process leave alone
outsideMain == <<bmpVars, encVars, loadVars, fnVars, rendererVars, logVars>>

\* the arguments of the save-image calls: a good image for jpeg, no data, a
\* string that is no data URL, an oversize image, an unknown format, data
\* the codec rejects, and an image with no format at all
MainSaveArgs ==
    {[dataUrl |-> DataUrl(PngHead, 92, 1, SmallImage),
      defaultName |-> Str(<<"p", ".", "j", "p", "g">>), targetFormat |-> Str(jpeg),
      quality |-> Num(80)],
     [dataUrl |-> Undef,
      defaultName |-> Str(<<"p", ".", "j", "p", "g">>), targetFormat |-> Str(jpeg),
      quality |-> Num(80)],
     [dataUrl |-> Str(<<"h", "t", "t", "p", ":", "x">>),
      defaultName |-> Str(<<"p", ".", "j", "p", "g">>), targetFormat |-> Str(jpeg),
      quality |-> Num(80)],
     [dataUrl |-> DataUrl(PngHead, PayloadOfLength(MAX_SIZE + 1).chars,
                          PayloadOfLength(MAX_SIZE + 1).pad, SmallImage),
      defaultName |-> Str(<<"p", ".", "j", "p", "g">>), targetFormat |-> Str(jpeg),
      quality |-> Num(80)],
     [dataUrl |-> DataUrl(PngHead, 92, 1, SmallImage),
      defaultName |-> Str(<<"p", ".", "x", "y", "z">>),
      targetFormat |-> Str(<<"x", "y", "z">>), quality |-> Undef],
     [dataUrl |-> DataUrl(PngHead, 92, 1, CorruptBuffer),
      defaultName |-> Str(<<"p", ".", "j", "p", "g">>), targetFormat |-> Str(bmp),
      quality |-> Undef],
     [dataUrl |-> DataUrl(PngHead, 92, 1, SmallImage),
      defaultName |-> Str(<<"p">>), targetFormat |-> Undef, quality |-> Undef]}

\* ipcMain.handle('save-image') is invoked; no earlier call is in progress
SaveImageCalled ==
    /\ savePc \in {"idle", "done"}
    /\ saveCalls < MaxSaves
    /\ saveArgs' \in MainSaveArgs
    /\ savePc' = "call"
    /\ saveLocals' = [format |-> Null, defaultName |-> Undef, outputPath |-> Null,
                      inputBuffer |-> EmptyBuffer, inputLength |-> 0]
    /\ saveResult' = [success |-> FALSE, pending |-> TRUE]
    /\ saveTrace' = <<>>
    /\ saveCalls' = saveCalls + 1
    /\ filesAtCall' = files
    /\ everSaved' = (everSaved \/ saveResult.success)
    /\ UNCHANGED <<files, lastSavedFilePath, openCall>>
    /\ UNCHANGED outsideMain

\* a save-image call has returned success at some time
EverSucceeded == everSaved \/ (savePc = "done" /\ saveResult.success)

\* the arguments of the open handlers
OpenPaths == {Undef, Str(<<"/", "x", ".", "p", "n", "g">>)}

OpenTargetArgumentOnly(filePath) == filePath

\* const targetPath = filePath || lastSavedFilePath
OpenTarget(filePath) == IF ~Falsy(filePath) THEN filePath ELSE lastSavedFilePath

OpenFailure(message) == [success |-> FALSE, error |-> message]

OpenSuccess == [success |-> TRUE]

\* a call of an open handler: its argument, the path it acted on, its result,
\* and lastSavedFilePath and EverSucceeded as they were at the call
OpenCalled(handler, filePath, targetPath, result) ==
    [handler |-> handler, filePath |-> filePath, targetPath |-> targetPath,
     result |-> result, lastSaved |-> lastSavedFilePath, saved |-> EverSucceeded]

\* ipcMain.handle('open-containing-folder'): shell.showItemInFolder may throw
OpenContainingFolder ==
    /\ \E filePath \in OpenPaths, shellThrows \in BOOLEAN :
          LET targetPath == OpenTarget(filePath)
          IN  openCall' =
                 OpenCalled("open-containing-folder", filePath, targetPath,
                            IF Falsy(targetPath) THEN OpenFailure("No file path available")
                            ELSE IF shellThrows THEN OpenFailure("showItemInFolder failed")
                            ELSE OpenSuccess)
    /\ UNCHANGED <<saveCalls, filesAtCall, everSaved>>
    /\ UNCHANGED saveVars
    /\ UNCHANGED outsideMain

\* ipcMain.handle('open-file'): shell.openPath resolves to '' or to an error
\* message, or throws
OpenFile ==
    /\ \E filePath \in OpenPaths, shell \in {"", "Failed to open path", "throws"} :
          LET targetPath == OpenTarget(filePath)
          IN  openCall' =
                 OpenCalled("open-file", filePath, targetPath,
                            IF Falsy(targetPath) THEN OpenFailure("No file path available")
                            ELSE IF shell = "throws" THEN OpenFailure("openPath failed")
                            ELSE IF shell # "" THEN OpenFailure(shell)
                            ELSE OpenSuccess)
    /\ UNCHANGED <<saveCalls, filesAtCall, everSaved>>
    /\ UNCHANGED saveVars
    /\ UNCHANGED outsideMain

\* the main process after start: no save-image call yet
MainInit ==
    /\ SaveIdle
    /\ sharp \in BOOLEAN
    /\ BmpIdle
    /\ EncIdle
    /\ LoadIdle
    /\ FnIdle
    /\ AppIdle

MainNext ==
    \/ SaveImageCalled
    \/ SaveNext
    \/ OpenContainingFolder
    \/ OpenFile

SpecMain == MainInit /\ [][MainNext]_vars

-----------------------------------------------------------------------------
(* C28: lastSavedFilePath *)

SaveTraceHas(step) == \E i \in DOMAIN saveTrace : saveTrace[i] = step

\* C28: lastSavedFilePath changes only when a save-image call returns
\* success and then equals the returned path; a cancelled save has only shown
\* the dialog and written no file; a save that failed before the write step
\* has written no file; an open handler called without a path acts on
\* lastSavedFilePath and answers 'No file path available' when no save has
\* ever succeeded
C28_LastSavedFilePath ==
    /\ [][lastSavedFilePath' # lastSavedFilePath =>
             /\ savePc' = "done"
             /\ saveResult'.success
             /\ saveResult'.path = lastSavedFilePath']_vars
    /\ []((savePc = "done" /\ saveResult.success) => lastSavedFilePath = saveResult.path)
    /\ [](EverSucceeded <=> lastSavedFilePath # Null)
    /\ []((savePc = "done" /\ saveResult = SaveCancelled) =>
             /\ saveTrace = <<"showSaveDialog">>
             /\ files = filesAtCall)
    /\ []((savePc = "done" /\ ~saveResult.success /\ ~SaveTraceHas("writeFileSync")) =>
             files = filesAtCall)
    /\ []((openCall # Null /\ Falsy(openCall.filePath)) =>
             /\ openCall.targetPath = openCall.lastSaved
             /\ ~openCall.saved => openCall.result = OpenFailure("No file path available"))

\* a second save was cancelled after the first one succeeded, and open-file
\* without a path then opened the saved file
C28_Witness ==
    /\ saveCalls = 2
    /\ savePc = "done"
    /\ saveResult = SaveCancelled
    /\ everSaved
    /\ lastSavedFilePath # Null
    /\ files # {}
    /\ openCall # Null
    /\ openCall.handler = "open-file"
    /\ Falsy(openCall.filePath)
    /\ openCall.targetPath = lastSavedFilePath
    /\ openCall.result = OpenSuccess

-----------------------------------------------------------------------------
(* Main process: the log list, the log window and the renderer's Logger *)

\* the capacity of the three log lists, which is 1000 in the program
\* (MAX_LOGS, MAX_LOG_ENTRIES and maxLogEntries); the model keeps the
\* comparison and the eviction and uses a capacity that the lists reach
LogCapacity == 3

MAX_LOGS == LogCapacity

MAX_LOG_ENTRIES == LogCapacity

maxLogEntries == LogCapacity

\* the add-log messages, the Logger.log calls and the log windows created
MaxAdds == 5

MaxLogged == 4

MaxLogWindows == 2

outsideLog == <<bmpVars, encVars, saveVars, loadVars, fnVars, rendererVars, mainVars>>

PushShiftInclusive(list, entry, max) ==
    IF Len(list) + 1 >= max THEN Tail(Append(list, entry)) ELSE Append(list, entry)

\* list.push(entry); if (list.length > max) list.shift()
PushShift(list, entry, max) ==
    IF Len(list) + 1 > max THEN Tail(Append(list, entry)) ELSE Append(list, entry)

\* window.webContents.send(channel, payload)
Msg(to, channel, payload) == [to |-> to, channel |-> channel, payload |-> payload]

\* what the listeners of a channel send when each of them runs once
EachHandlerSends(messages) ==
    LET RECURSIVE repeat(_)
        repeat(k) == IF k = 0 THEN <<>> ELSE repeat(k - 1) \o messages
    IN  repeat(logHandlers)

\* ipcMain.on('add-log'): addLog(logEntry); the entry is the number of the
\* message. A log window whose page is still loading has no listener yet.
AddLog ==
    /\ added < MaxAdds
    /\ added' = added + 1
    /\ sharedLogs' = PushShift(sharedLogs, added + 1, MAX_LOGS)
    /\ sent' = <<Msg("main", "log-entry", <<added + 1>>)>>
               \o IF logWindow # "none" THEN <<Msg("log", "log-update", <<added + 1>>)>>
                  ELSE <<>>
    /\ windowLogs' = IF logWindow = "ready"
                     THEN PushShift(windowLogs, added + 1, maxLogEntries)
                     ELSE windowLogs
    /\ UNCHANGED <<logWindow, logHandlers, loggerLogs, logged>>
    /\ UNCHANGED outsideLog

\* createLogWindow(): an existing window is focused; otherwise the window is
\* created and the four ipcMain listeners are registered
CreateLogWindow ==
    /\ IF logWindow # "none"
       THEN UNCHANGED <<logWindow, logHandlers, windowLogs>>
       ELSE /\ logHandlers < MaxLogWindows
            /\ logWindow' = "loading"
            /\ logHandlers' = logHandlers + 1
            /\ windowLogs' = <<>>
    /\ sent' = <<>>
    /\ UNCHANGED <<sharedLogs, added, loggerLogs, logged>>
    /\ UNCHANGED outsideLog

\* the page of the log window sends 'log-window-ready'; every registered
\* listener answers with 'log-batch', and the page takes each batch as its list
LogWindowReady ==
    /\ logWindow = "loading"
    /\ logWindow' = "ready"
    /\ sent' = EachHandlerSends(<<Msg("log", "log-batch", sharedLogs)>>)
    /\ windowLogs' = sharedLogs
    /\ UNCHANGED <<logHandlers, sharedLogs, added, loggerLogs, logged>>
    /\ UNCHANGED outsideLog

\* the clear button of the log window sends 'clear-logs'; every registered
\* listener empties the list and notifies both windows
ClearLogs ==
    /\ logWindow = "ready"
    /\ sharedLogs' = <<>>
    /\ sent' = EachHandlerSends(<<Msg("log", "log-cleared", <<>>),
                                  Msg("main", "logs-cleared", <<>>)>>)
    /\ windowLogs' = <<>>
    /\ UNCHANGED <<logWindow, logHandlers, added, loggerLogs, logged>>
    /\ UNCHANGED outsideLog

\* the log window is closed: logWindow.on('closed', () => { logWindow = null })
CloseLogWindow ==
    /\ logWindow # "none"
    /\ logWindow' = "none"
    /\ windowLogs' = <<>>
    /\ sent' = <<>>
    /\ UNCHANGED <<logHandlers, sharedLogs, added, loggerLogs, logged>>
    /\ UNCHANGED outsideLog

\* Logger.log(level, message, details, error) in the renderer
LoggerLog ==
    /\ logged < MaxLogged
    /\ logged' = logged + 1
    /\ loggerLogs' = PushShift(loggerLogs, logged + 1, MAX_LOG_ENTRIES)
    /\ UNCHANGED <<logWindow, logHandlers, sharedLogs, added, sent, windowLogs>>
    /\ UNCHANGED outsideLog

\* Logger.clear(): this.logs = []; this.info('Logs cleared', ...)
LoggerClear ==
    /\ logged < MaxLogged
    /\ logged' = logged + 1
    /\ loggerLogs' = PushShift(<<>>, logged + 1, MAX_LOG_ENTRIES)
    /\ UNCHANGED <<logWindow, logHandlers, sharedLogs, added, sent, windowLogs>>
    /\ UNCHANGED outsideLog

\* the application after start: no log, no log window, no listener of
\* createLogWindow registered
LogInit ==
    /\ LogIdle
    /\ RendererIdle
    /\ MainIdle
    /\ BmpIdle
    /\ EncIdle
    /\ SaveIdle
    /\ LoadIdle
    /\ FnIdle
    /\ sharp = FALSE

LogNext ==
    \/ AddLog
    \/ CreateLogWindow
    \/ LogWindowReady
    \/ ClearLogs
    \/ CloseLogWindow
    \/ LoggerLog
    \/ LoggerClear

SpecLog == LogInit /\ [][LogNext]_vars

-----------------------------------------------------------------------------
(* C29: the listeners of createLogWindow *)

\* the number of messages on a channel among those sent last
SentOn(channel) == Cardinality({i \in DOMAIN sent : sent[i].channel = channel})

\* C29: after any number of open/close cycles of the log window, one
\* 'log-window-ready' is answered by exactly one 'log-batch', one 'clear-logs'
\* by exactly one 'log-cleared' and exactly one 'logs-cleared'; no channel has
\* more than one listener
C29_OneHandlerPerChannel ==
    /\ [][LogWindowReady => SentOn("log-batch")' = 1]_vars
    /\ [][ClearLogs => SentOn("log-cleared")' = 1 /\ SentOn("logs-cleared")' = 1]_vars
    /\ [](logHandlers <= 1)

-----------------------------------------------------------------------------
(* C30: the bounded log lists *)

\* a list holds consecutive entries, the last of which is the entry added last
LatestInOrder(list, last) ==
    \A i \in DOMAIN list : list[i] = last - Len(list) + i

\* a list holds entries in arrival order with none missing in between
InArrivalOrder(list) ==
    \A i \in DOMAIN list : i > 1 => list[i] = list[i - 1] + 1

\* the list after one more entry: the oldest entry leaves when the list is full
WithEntry(list, entry, max) ==
    IF Len(list) = max THEN Tail(list) \o <<entry>> ELSE list \o <<entry>>

=============================================================================
